---- MODULE Spec2Model ----
(***************************************************************************)
(* Query orchestration engine of AI_Chat_agent                              *)
(* (backend/app/services/ai_agent.py: class AIAgent and the global          *)
(* instance ai_agent).                                                      *)
(*                                                                          *)
(* Text (secrets, provider error texts, model responses) is a sequence of   *)
(* tokens; the Python operators in, find, replace and strip are computed   *)
(* on these sequences.  None is the Python value None.                      *)
(***************************************************************************)
EXTENDS Integers, Sequences, FiniteSets, TLC

VARIABLES
    ai_agent,       \* the global AIAgent instance: a record of its fields
    genai_api_key,  \* the key last given to genai.configure (library global)
    op,             \* the operation performed by the last step and what it returned
    served,         \* keys returned by get_next_api_key steps since the pool last changed
    sys_stdout,     \* sys.stdout: the stream print writes to
    streams,        \* the text held by each live StringIO buffer
    run,            \* execute_code_safely: the frame of each worker's call
    loop,           \* the generate / execute-repair loops and the decomposer: the call in progress
    sessions,       \* chat_session_manager.sessions: the ChatSession of each chat id
    now,            \* what time.time() returns
    appended,       \* per chat id ever given, every message appended to its history so far
    answer          \* get_answer_with_task_breakdown / get_answer_with_chat_context: the call in progress

vars == <<ai_agent, genai_api_key, op, served, sys_stdout, streams, run, loop,
          sessions, now, appended, answer>>

\* Python None where a text is expected
None == <<"<None>">>

\* loop is the frame of a retrying operation in progress: fn the operation, pc
\* its place, attempt its attempt argument, code the script it holds, calls the
\* inference calls it made, execs the executor invocations, patches the patch
\* requests, ret what it returned or the text of what it raised
Idle ==
    [pc |-> "idle", fn |-> "", attempt |-> 0, code |-> <<>>, error |-> <<>>,
     calls |-> <<>>, execs |-> <<>>, patches |-> <<>>, ret |-> <<>>]

\* the key a Python dict does not have
Absent == <<"<absent>">>

\* a response dict of get_answer_with_task_breakdown, get_answer or
\* get_answer_with_chat_context: the value of each key, Absent for a key the
\* dict does not have; has_counters and has_tasks tell whether the dict has the
\* two counters and the task list
Response(error, text, chart_type, chart_data, has_counters, api_calls_made, total_tokens_used, has_tasks, tasks) ==
    [error |-> error, answer |-> text, chart_type |-> chart_type,
     chart_data |-> chart_data, has_counters |-> has_counters,
     api_calls_made |-> api_calls_made, total_tokens_used |-> total_tokens_used,
     has_tasks |-> has_tasks, tasks |-> tasks,
     chat_id |-> Absent, database_session_id |-> Absent, message_count |-> 0]

\* answer is the frame of a top-level call: fn the function, pc its place, mode
\* whether it processes the tasks of the breakdown or has fallen back to
\* get_answer, question the caller's query and query the one handed to
\* get_answer_with_task_breakdown, tasks the breakdown, results the task results so far, code and
\* raw_result those of the task in progress, exhausted the retry loops that hit
\* their ceiling, requests and executions the inference calls and the executor
\* invocations made so far, attempts the inference calls by the loop that made
\* them, start the pool, tier, counters and sessions as the
\* call found them, response what it returned
NoAnswer ==
    [pc |-> "idle", fn |-> "", mode |-> "", question |-> <<>>, query |-> <<>>,
     session_id |-> "", chat_id |-> "", tasks |-> <<>>, results |-> <<>>, code |-> <<>>,
     schema_info |-> Absent, started |-> <<>>, raw_result |-> <<>>, exhausted |-> {},
     requests |-> 0,
     executions |-> 0,
     attempts |-> [decompose |-> 0, generate |-> 0, patch |-> 0, synthesize |-> 0],
     response |-> Response(Absent, <<>>, <<>>, Absent, FALSE, 0, 0, FALSE, <<>>)]

\* what op holds: the operation of the last step, its key argument, whether it
\* returned normally (and True), its result or error text, the provider requests
\* it issued and the tier demotions it made
OpRec(name, key_arg, ok, ret, reqs, demotions) ==
    [name |-> name, key_arg |-> key_arg, ok |-> ok, ret |-> ret,
     reqs |-> reqs, demotions |-> demotions]

-----------------------------------------------------------------------------
(* Bounds of the model *)

\* provider requests counted before the model stops issuing new calls
MaxCalls == 2

\* the same bound for the inference calls of SpecInference
MaxInferenceCalls == 1

-----------------------------------------------------------------------------
(* Text as token sequences *)

\* s[a..b] as a sequence (empty when a > b)
Slice(s, a, b) == [i \in 1..(b - a + 1) |-> s[a + i - 1]]

\* Python: sub in s
Contains(s, sub) ==
    \E i \in 0..(Len(s) - Len(sub)) : Slice(s, i + 1, i + Len(sub)) = sub

RECURSIVE Replace(_, _, _)
\* Python: s.replace(old, new), old non-empty
Replace(s, old, new) ==
    IF Len(s) < Len(old) \/ Len(old) = 0 THEN s
    ELSE IF Slice(s, 1, Len(old)) = old
         THEN new \o Replace(Slice(s, Len(old) + 1, Len(s)), old, new)
         ELSE <<s[1]>> \o Replace(Tail(s), old, new)

WS == " "
NL == "\n"

IsSpace(tok) == tok \in {WS, NL}

RECURSIVE LStrip(_)
LStrip(s) == IF s # <<>> /\ IsSpace(s[1]) THEN LStrip(Tail(s)) ELSE s

RECURSIVE RStrip(_)
RStrip(s) ==
    IF s # <<>> /\ IsSpace(s[Len(s)]) THEN RStrip(Slice(s, 1, Len(s) - 1)) ELSE s

\* Python: s.startswith(prefix)
StartsWith(s, prefix) ==
    Len(s) >= Len(prefix) /\ Slice(s, 1, Len(prefix)) = prefix

\* Python: s.strip()
Strip(s) == RStrip(LStrip(s))

-----------------------------------------------------------------------------
(* Credential pool and model tier *)

primary_model_name == "gemini-2.5-pro"
fallback_model_name == "gemini-2.5-flash"
tertiary_model_name == "gemini-2.5-flash-lite"

ModelNames == {primary_model_name, fallback_model_name, tertiary_model_name}

\* position of a model in the ranking primary < secondary < tertiary
TierRank(m) ==
    IF m = primary_model_name THEN 1
    ELSE IF m = fallback_model_name THEN 2 ELSE 3

\* secrets: the one the environment may configure and the ones users register
EnvSecret == <<"kE">>
UserSecrets == {<<"kA">>, <<"kB">>}
Secrets == UserSecrets \cup {EnvSecret}

\* what settings.GEMINI_API_KEY can hold: unset, blank, or a padded secret
EnvSettings == {<<>>, <<WS>>, <<WS, "kE">>}

\* raw texts handed to add_gemini_api_key
RawSecrets == {<<"kA">>, <<WS, "kA", WS>>, <<"kB", WS>>, <<"kE">>}

\* time.time() at the moment of a successful request
Now == <<"<time>">>

ZeroUsage == [calls_made |-> 0, tokens_used |-> 0, last_used |-> None]

\* AIAgent.__init__ with line 47 left out: the environment key is kept as
\* env_api_key but not put into the pool
AgentInit_unpooled(default_key) ==
    LET has == default_key # <<>> /\ Strip(default_key) # <<>>
        env == IF has THEN Strip(default_key) ELSE None
    IN [gemini_api_keys |-> <<>>,
        current_api_index |-> 0,
        current_model_name |-> primary_model_name,
        env_api_key |-> env,
        api_call_count |-> 0,
        total_tokens_used |-> 0,
        api_key_usage |-> IF has THEN (env :> ZeroUsage) ELSE <<>>]

\* AIAgent.__init__ for a given value of settings.GEMINI_API_KEY
AgentInit(default_key) ==
    LET has == default_key # <<>> /\ Strip(default_key) # <<>>
        env == IF has THEN Strip(default_key) ELSE None
    IN [gemini_api_keys |-> IF has THEN <<env>> ELSE <<>>,
        current_api_index |-> 0,
        current_model_name |-> primary_model_name,
        env_api_key |-> env,
        api_call_count |-> 0,
        total_tokens_used |-> 0,
        api_key_usage |-> IF has THEN (env :> ZeroUsage) ELSE <<>>]

\* Python: key in self.gemini_api_keys
InPool(self, key) == \E i \in 1..Len(self.gemini_api_keys) : self.gemini_api_keys[i] = key

\* d[key] = v, adding key when it is new
DictSet(d, key, v) == [k \in DOMAIN d \cup {key} |-> IF k = key THEN v ELSE d[k]]

\* add_gemini_api_key with the append of lines 93-98 done before the live probe
add_gemini_api_key_append_first(self, configured, raw, probe_ok) ==
    LET api_key == Strip(raw)
        added == [self EXCEPT
                    !.gemini_api_keys = Append(@, api_key),
                    !.api_key_usage = DictSet(@, api_key, ZeroUsage)]
    IN
    IF api_key = self.env_api_key
    THEN [self |-> self, ret |-> FALSE, configured |-> configured]
    ELSE IF InPool(self, api_key)
    THEN [self |-> self, ret |-> FALSE, configured |-> configured]
    ELSE [self |-> added, ret |-> probe_ok, configured |-> api_key]

\* add_gemini_api_key: the result for a raw secret and the outcome of the live
\* probe (test_model.generate_content("test")); configured is the key genai holds
add_gemini_api_key(self, configured, raw, probe_ok) ==
    LET api_key == Strip(raw) IN
    IF api_key = self.env_api_key
    THEN [self |-> self, ret |-> FALSE, configured |-> configured]
    ELSE IF InPool(self, api_key)
    THEN [self |-> self, ret |-> FALSE, configured |-> configured]
    ELSE IF ~probe_ok
    THEN [self |-> self, ret |-> FALSE, configured |-> api_key]
    ELSE [self |-> [self EXCEPT
                      !.gemini_api_keys = Append(@, api_key),
                      !.api_key_usage = DictSet(@, api_key, ZeroUsage)],
          ret |-> TRUE, configured |-> api_key]

\* ensure_env_api_key_available with the membership test of line 113 left out
ensure_env_api_key_available_again(self) ==
    IF self.env_api_key = None
    THEN [self |-> self, ret |-> FALSE]
    ELSE [self |-> [self EXCEPT
                      !.gemini_api_keys = Append(@, self.env_api_key),
                      !.api_key_usage =
                          IF self.env_api_key \in DOMAIN @ THEN @
                          ELSE DictSet(@, self.env_api_key, ZeroUsage)],
          ret |-> TRUE]

\* ensure_env_api_key_available
ensure_env_api_key_available(self) ==
    IF self.env_api_key = None
    THEN [self |-> self, ret |-> FALSE]
    ELSE IF ~InPool(self, self.env_api_key)
    THEN [self |-> [self EXCEPT
                      !.gemini_api_keys = Append(@, self.env_api_key),
                      !.api_key_usage =
                          IF self.env_api_key \in DOMAIN @ THEN @
                          ELSE DictSet(@, self.env_api_key, ZeroUsage)],
          ret |-> TRUE]
    ELSE [self |-> self, ret |-> TRUE]

NoKeysError == <<"No Gemini API keys available">>

\* get_next_api_key with the wrap of the index forgotten: it stays on the last key
get_next_api_key_nowrap(self) ==
    IF self.gemini_api_keys = <<>>
    THEN [self |-> self, raised |-> TRUE, ret |-> NoKeysError]
    ELSE [self |-> [self EXCEPT !.current_api_index =
                        IF self.current_api_index + 1 < Len(self.gemini_api_keys)
                        THEN self.current_api_index + 1 ELSE self.current_api_index],
          raised |-> FALSE,
          ret |-> self.gemini_api_keys[self.current_api_index + 1]]

\* get_next_api_key: round-robin selection (the index is 0-based in the code)
get_next_api_key(self) ==
    IF self.gemini_api_keys = <<>>
    THEN [self |-> self, raised |-> TRUE, ret |-> NoKeysError]
    ELSE [self |-> [self EXCEPT !.current_api_index =
                        (self.current_api_index + 1) % Len(self.gemini_api_keys)],
          raised |-> FALSE,
          ret |-> self.gemini_api_keys[self.current_api_index + 1]]

\* _switch_to_fallback_model wrapping from the last model back to the first
switch_to_fallback_model_wrap(self) ==
    IF self.current_model_name = primary_model_name
    THEN [self |-> [self EXCEPT !.current_model_name = fallback_model_name], ret |-> TRUE]
    ELSE IF self.current_model_name = fallback_model_name
    THEN [self |-> [self EXCEPT !.current_model_name = tertiary_model_name], ret |-> TRUE]
    ELSE [self |-> [self EXCEPT !.current_model_name = primary_model_name], ret |-> TRUE]

\* _switch_to_fallback_model
switch_to_fallback_model(self) ==
    IF self.current_model_name = primary_model_name
    THEN [self |-> [self EXCEPT !.current_model_name = fallback_model_name], ret |-> TRUE]
    ELSE IF self.current_model_name = fallback_model_name
    THEN [self |-> [self EXCEPT !.current_model_name = tertiary_model_name], ret |-> TRUE]
    ELSE [self |-> self, ret |-> FALSE]

\* reset_to_primary_model
reset_to_primary_model(self) ==
    IF self.current_model_name # primary_model_name
    THEN [self EXCEPT !.current_model_name = primary_model_name]
    ELSE self

\* a reset of the counters that also rewinds the rotation
reset_credit_tracking_rewind(self) ==
    [self EXCEPT !.api_call_count = 0,
                 !.total_tokens_used = 0,
                 !.current_api_index = 0,
                 !.api_key_usage = [k \in DOMAIN @ |-> ZeroUsage]]

\* reset_credit_tracking
reset_credit_tracking(self) ==
    [self EXCEPT !.api_call_count = 0,
                 !.total_tokens_used = 0,
                 !.api_key_usage = [k \in DOMAIN @ |-> ZeroUsage]]

-----------------------------------------------------------------------------
(* Inference gateway *)

\* Python: s.lower(), for the words the provider's error texts use
LowerWord(w) ==
    CASE w = "RESOURCE_EXHAUSTED" -> "resource_exhausted"
      [] w = "Quota" -> "quota"
      [] w = "Model" -> "model"
      [] w = "Pie" -> "pie"
      [] w = "D" -> "d"
      [] w = "E" -> "e"
      [] w = "H" -> "h"
      [] w = "I" -> "i"
      [] w = "M" -> "m"
      [] w = "P" -> "p"
      [] w = "S" -> "s"
      [] w = "W" -> "w"
      [] OTHER -> w

Lower(s) == [i \in 1..Len(s) |-> LowerWord(s[i])]

limit_indicators ==
    { <<"quota", "exceeded">>, <<"rate", "limit">>, <<"limit", "exceeded">>,
      <<"too", "many", "requests">>, <<"quota_exceeded">>, <<"rate_limit_exceeded">>,
      <<"model", "not", "available">>, <<"model", "unavailable">>,
      <<"resource_exhausted">> }

\* _is_model_limit_error
is_model_limit_error(error_msg) ==
    \E indicator \in limit_indicators : Contains(Lower(error_msg), indicator)

Masked == <<"***API_KEY***">>

\* the sanitising of lines 195-196 and 268-269
Sanitize(error_msg, api_key) ==
    IF api_key # None /\ api_key # <<>> /\ Contains(error_msg, api_key)
    THEN Replace(error_msg, api_key, Masked)
    ELSE error_msg

\* the markdown fence tokens: three backticks followed by python, three backticks
FencePy == "<fence>python"
Fence == "<fence>"

\* Python: result.find(tok, start) on tokens, 0 when absent; a FencePy token
\* also matches a search for Fence
RECURSIVE FindFence(_, _, _)
FindFence(s, start, python_only) ==
    IF start > Len(s) THEN 0
    ELSE IF s[start] = FencePy \/ (~python_only /\ s[start] = Fence) THEN start
    ELSE FindFence(s, start + 1, python_only)

\* the markdown code block extraction of lines 174-187 (and 222-235, 501-511)
ExtractCode(result) ==
    LET py == FindFence(result, 1, TRUE)
        any == FindFence(result, 1, FALSE)
        open == IF py # 0 THEN py ELSE any
        close == IF open = 0 THEN 0 ELSE FindFence(result, open + 1, FALSE)
    IN IF open # 0 /\ close # 0
       THEN Strip(Slice(result, open + 1, close - 1))
       ELSE result

\* the place of the requesting key in the template of a provider error text
KeySlot == <<"<key>">>

\* what one provider request (model.generate_content, response.text) can do for
\* the key it is made with: provider.responses are the texts it may answer,
\* provider.errors the error texts it may fail with.
\* has_usage: hasattr(response, usage_metadata); tokens: its total_token_count
Outcomes(key, provider) ==
    { [ok |-> TRUE, text |-> r, has_usage |-> u, tokens |-> IF u THEN 2 ELSE 0] :
        r \in provider.responses, u \in BOOLEAN }
    \cup { [ok |-> FALSE, text |-> Replace(e, KeySlot, key), has_usage |-> FALSE, tokens |-> 0] :
        e \in provider.errors }

\* the usage tracking with the per-key call counter left out
RecordUsage_global_only(self, api_key, o) ==
    [self EXCEPT
        !.api_call_count = @ + 1,
        !.total_tokens_used = IF o.has_usage THEN @ + o.tokens ELSE @,
        !.api_key_usage[api_key] =
            [calls_made |-> @.calls_made,
             tokens_used |-> IF o.has_usage THEN @.tokens_used + o.tokens ELSE @.tokens_used,
             last_used |-> Now]]

\* the usage tracking of lines 162-172 (and 210-220)
RecordUsage(self, api_key, o) ==
    [self EXCEPT
        !.api_call_count = @ + 1,
        !.total_tokens_used = IF o.has_usage THEN @ + o.tokens ELSE @,
        !.api_key_usage[api_key] =
            [calls_made |-> @.calls_made + 1,
             tokens_used |-> IF o.has_usage THEN @.tokens_used + o.tokens ELSE @.tokens_used,
             last_used |-> Now]]

GeminiErrorPrefix == <<"Gemini", "API", "error:">>
NoFallbackPrefix == <<"Model", "limit", "exceeded", "and", "no", "fallback", "available:">>
BothFailedPrefix == <<"Both", "primary", "and", "fallback", "models", "failed.", "Last", "error:">>

Req(key, model, o) == [key |-> key, model |-> model, ok |-> o.ok, text |-> o.text]

\* an except branch that demotes the tier for every error before it classifies it
gemini_except_demote_first(self, configured, api_key, e, reqs, nxt, o2) ==
    LET error_msg == Sanitize(e, api_key)
        sw == switch_to_fallback_model(self)
    IN
    IF is_model_limit_error(error_msg)
    THEN IF sw.ret
         THEN LET reqs2 == Append(reqs, Req(configured, sw.self.current_model_name, o2)) IN
              IF o2.ok
              THEN [self |-> RecordUsage(sw.self, api_key, o2), configured |-> configured,
                    raised |-> FALSE, ret |-> ExtractCode(o2.text),
                    reqs |-> reqs2, demotions |-> 1, next |-> nxt]
              ELSE [self |-> sw.self, configured |-> configured,
                    raised |-> TRUE, ret |-> BothFailedPrefix \o o2.text,
                    reqs |-> reqs2, demotions |-> 1, next |-> nxt]
         ELSE [self |-> self, configured |-> configured,
               raised |-> TRUE, ret |-> NoFallbackPrefix \o error_msg,
               reqs |-> reqs, demotions |-> 0, next |-> nxt]
    ELSE [self |-> sw.self, configured |-> configured,
          raised |-> TRUE, ret |-> GeminiErrorPrefix \o error_msg,
          reqs |-> reqs, demotions |-> 0, next |-> nxt]

\* the except branch of _call_gemini_api (lines 192-247): e is the text of the
\* exception, reqs the provider requests issued so far, o2 what the retry does
gemini_except(self, configured, api_key, e, reqs, nxt, o2) ==
    LET error_msg == Sanitize(e, api_key) IN
    IF is_model_limit_error(error_msg)
    THEN LET sw == switch_to_fallback_model(self) IN
         IF sw.ret
         THEN LET reqs2 == Append(reqs, Req(configured, sw.self.current_model_name, o2)) IN
              IF o2.ok
              THEN [self |-> RecordUsage(sw.self, api_key, o2), configured |-> configured,
                    raised |-> FALSE, ret |-> ExtractCode(o2.text),
                    reqs |-> reqs2, demotions |-> 1, next |-> nxt]
              ELSE [self |-> sw.self, configured |-> configured,
                    raised |-> TRUE, ret |-> BothFailedPrefix \o o2.text,
                    reqs |-> reqs2, demotions |-> 1, next |-> nxt]
         ELSE [self |-> self, configured |-> configured,
               raised |-> TRUE, ret |-> NoFallbackPrefix \o error_msg,
               reqs |-> reqs, demotions |-> 0, next |-> nxt]
    ELSE [self |-> self, configured |-> configured,
          raised |-> TRUE, ret |-> GeminiErrorPrefix \o error_msg,
          reqs |-> reqs, demotions |-> 0, next |-> nxt]

\* _call_gemini_api(prompt, api_key): o1 is what the first provider request does,
\* o2 what the retry does if there is one; configured is genai's current key
call_gemini_api(self, configured, api_key_arg, o1, o2) ==
    LET nx == IF api_key_arg = None
              THEN get_next_api_key(self)
              ELSE [self |-> self, raised |-> FALSE, ret |-> api_key_arg]
    IN
    IF nx.raised
    THEN gemini_except(self, configured, None, nx.ret, <<>>, None, o2)
    ELSE LET api_key == nx.ret
             s1 == nx.self
             nxt == IF api_key_arg = None THEN api_key ELSE None
         IN
         IF ~InPool(s1, api_key)
         THEN gemini_except(s1, configured, api_key,
                            <<"'">> \o api_key \o <<"'", "is", "not", "in", "list">>,
                            <<>>, nxt, o2)
         ELSE LET reqs == <<Req(api_key, s1.current_model_name, o1)>> IN
              IF o1.ok
              THEN [self |-> RecordUsage(s1, api_key, o1), configured |-> api_key,
                    raised |-> FALSE, ret |-> ExtractCode(o1.text),
                    reqs |-> reqs, demotions |-> 0, next |-> nxt]
              ELSE gemini_except(s1, api_key, api_key, o1.text, reqs, nxt, o2)

\* every result _call_gemini_api can have, over what the provider may answer
GeminiResults(self, configured, api_key_arg, provider) ==
    LET key == IF api_key_arg # None THEN api_key_arg
               ELSE IF self.gemini_api_keys = <<>> THEN None
               ELSE self.gemini_api_keys[self.current_api_index + 1]
        outs == Outcomes(key, provider)
    IN { call_gemini_api(self, configured, api_key_arg, o1, o1) : o1 \in {o \in outs : o.ok} }
       \cup { call_gemini_api(self, configured, api_key_arg, o1, o2) :
                 o1 \in {o \in outs : ~o.ok}, o2 \in outs }

AllFailedPrefix == <<"All", "Gemini", "API", "keys", "failed.", "Last", "error:">>

RECURSIVE SanitizeAll(_, _)
\* lines 276-278: every pooled key is masked in the final error text
SanitizeAll(msg, keys) ==
    IF keys = <<>> THEN msg ELSE SanitizeAll(Sanitize(msg, Head(keys)), Tail(keys))

RECURSIVE LlmTry(_, _, _, _, _, _, _)
\* the loop of _call_llm_api (lines 260-271) from pool position i on: the set of
\* results over what the provider may answer
LlmTry(self, configured, i, reqs, demotions, last_error, provider) ==
    IF i > Len(self.gemini_api_keys)
    THEN {[self |-> self, configured |-> configured, raised |-> TRUE,
           ret |-> AllFailedPrefix \o SanitizeAll(last_error, self.gemini_api_keys),
           reqs |-> reqs, demotions |-> demotions, next |-> None]}
    ELSE UNION {
           IF r.raised
           THEN LlmTry(r.self, r.configured, i + 1, reqs \o r.reqs,
                       demotions + r.demotions, r.ret, provider)
           ELSE {[r EXCEPT !.reqs = reqs \o r.reqs, !.demotions = demotions + r.demotions]}
           : r \in GeminiResults(self, configured, self.gemini_api_keys[i], provider) }

\* a failover call that takes its first credential from the rotation
call_llm_api_rotating(self, configured, provider) ==
    LET s1 == ensure_env_api_key_available(self).self IN
    IF s1.gemini_api_keys = <<>>
    THEN {[self |-> s1, configured |-> configured, raised |-> TRUE, ret |-> NoKeysError,
           reqs |-> <<>>, demotions |-> 0, next |-> None]}
    ELSE LlmTry(get_next_api_key(s1).self, configured, 1, <<>>, 0, None, provider)

\* _call_llm_api: the set of results over what the provider may answer
call_llm_api(self, configured, provider) ==
    LET s1 == ensure_env_api_key_available(self).self IN
    IF s1.gemini_api_keys = <<>>
    THEN {[self |-> s1, configured |-> configured, raised |-> TRUE, ret |-> NoKeysError,
           reqs |-> <<>>, demotions |-> 0, next |-> None]}
    ELSE LlmTry(s1, configured, 1, <<>>, 0, None, provider)

-----------------------------------------------------------------------------
(* Sandboxed executor: execute_code_safely.  A script is a text whose tokens    *)
(* are statements.                                                               *)

\* longest script handed to the executor
MaxScriptLen == 2

Console == <<"console">>
Stderr == <<"stderr">>

\* the exception classes safe_globals puts into __builtins__ (lines 586-607)
SandboxExceptionClasses ==
    { "Exception", "BaseException", "ImportError", "ValueError", "TypeError", "KeyError",
      "IndexError", "AttributeError", "NameError", "RuntimeError", "OSError",
      "FileNotFoundError", "PermissionError", "ConnectionError", "TimeoutError",
      "MemoryError", "NotImplementedError", "StopIteration", "GeneratorExit",
      "SystemExit", "KeyboardInterrupt" }

\* Python's class hierarchy: the classes that do not derive from Exception
NotExceptionSubclasses == {"BaseException", "GeneratorExit", "SystemExit", "KeyboardInterrupt"}

\* Python: isinstance(e, Exception) for an e of class cls
IsException(cls) == cls \notin NotExceptionSubclasses

SyntaxErrorStmt == "("

\* the statements of the scripts of the model and what each does when executed
Statements ==
    { "print('RESULT:42')", "print('Error executing code: x')", "1/0",
      "raise ValueError('boom')", "raise ImportError('boom')", "raise Exception('boom')",
      "raise BaseException('boom')", "raise SystemExit('boom')",
      "raise KeyboardInterrupt('boom')", "raise GeneratorExit('boom')",
      "import sys; sys.stdout = sys.stderr", SyntaxErrorStmt }

StmtOf(tok) ==
    CASE tok = "print('RESULT:42')" ->
            [kind |-> "print", text |-> <<"RESULT:42">>, cls |-> ""]
      [] tok = "print('Error executing code: x')" ->
            [kind |-> "print", text |-> <<"Error executing code", ": x">>, cls |-> ""]
      [] tok = "1/0" ->
            [kind |-> "raise", text |-> <<"division by zero">>, cls |-> "ZeroDivisionError"]
      [] tok = "raise ValueError('boom')" ->
            [kind |-> "raise", text |-> <<"boom">>, cls |-> "ValueError"]
      [] tok = "raise ImportError('boom')" ->
            [kind |-> "raise", text |-> <<"boom">>, cls |-> "ImportError"]
      [] tok = "raise Exception('boom')" ->
            [kind |-> "raise", text |-> <<"boom">>, cls |-> "Exception"]
      [] tok = "raise BaseException('boom')" ->
            [kind |-> "raise", text |-> <<"boom">>, cls |-> "BaseException"]
      [] tok = "raise SystemExit('boom')" ->
            [kind |-> "raise", text |-> <<"boom">>, cls |-> "SystemExit"]
      [] tok = "raise KeyboardInterrupt('boom')" ->
            [kind |-> "raise", text |-> <<"boom">>, cls |-> "KeyboardInterrupt"]
      [] tok = "raise GeneratorExit('boom')" ->
            [kind |-> "raise", text |-> <<"boom">>, cls |-> "GeneratorExit"]
      [] tok = "import sys; sys.stdout = sys.stderr" ->
            [kind |-> "set_stdout", text |-> Stderr, cls |-> ""]
      [] OTHER ->
            [kind |-> "pass", text |-> <<>>, cls |-> ""]

\* Python: compile(code, "<string>", "exec") succeeds: no statement is
\* malformed and none is indented
Compiles(code) ==
    \A i \in 1..Len(code) :
        /\ code[i] # SyntaxErrorStmt
        /\ (i > 1 /\ code[i - 1] = WS) => IsSpace(code[i])

ErrorMarker == <<"Error executing code">>

\* the frame of one execute_code_safely call: pc is the place in the function,
\* ip the statement of the script that runs next (0: exec has not compiled yet),
\* exc the class of the exception exec raised, outcome what the call does at its
\* end: return value, or raise the exception of class exc and text value
IdleFrame ==
    [pc |-> "idle", code |-> <<>>, ip |-> 0, old_stdout |-> None,
     captured_output |-> None, outcome |-> "none", value |-> <<>>, exc |-> ""]

\* a StringIO no frame and no sys.stdout refers to yet
NewStringIO(io) ==
    LET n == CHOOSE n \in 1..(Cardinality(DOMAIN io.streams) + 1) :
                 <<"StringIO", ToString(n)>> \notin DOMAIN io.streams
    IN <<"StringIO", ToString(n)>>

\* lines 611-613: sys.stdout is saved and replaced by a new StringIO
run_begin(code, io) ==
    LET buf == NewStringIO(io) IN
    [fr |-> [IdleFrame EXCEPT !.pc = "try", !.code = code, !.old_stdout = io.stdout,
                              !.captured_output = buf],
     io |-> [stdout |-> buf, streams |-> DictSet(io.streams, buf, <<>>)]]

\* lines 625-626: the except clause, for an exception of class cls with text msg;
\* an exception it does not catch leaves through the finally clause
run_except(fr, cls, msg) ==
    IF IsException(cls)
    THEN [fr EXCEPT !.pc = "finally", !.outcome = "return", !.exc = cls,
                    !.value = ErrorMarker \o <<": ">> \o msg]
    ELSE [fr EXCEPT !.pc = "finally", !.outcome = "raise", !.value = msg, !.exc = cls]

\* print(text): text and a newline go to the stream sys.stdout is at that moment;
\* only StringIO buffers keep what is written to them
Write(io, text) ==
    IF io.stdout \in DOMAIN io.streams
    THEN [io EXCEPT !.streams[io.stdout] = @ \o text \o <<NL>>]
    ELSE io

\* a finally clause that would run on the normal path only
run_finally_on_success(fr, io) ==
    [fr |-> [fr EXCEPT !.pc = "done"],
     io |-> IF fr.exc = "" THEN [io EXCEPT !.stdout = fr.old_stdout] ELSE io]

\* lines 627-629: the finally clause
run_finally(fr, io) ==
    [fr |-> [fr EXCEPT !.pc = "done"], io |-> [io EXCEPT !.stdout = fr.old_stdout]]

\* one step of a call in the try block (lines 615-623): exec compiles the script,
\* then runs its statements one by one; after the last, the captured text is the
\* result
run_try(fr, io) ==
    IF fr.ip = 0
    THEN IF Compiles(fr.code)
         THEN [fr |-> [fr EXCEPT !.ip = 1], io |-> io]
         ELSE [fr |-> run_except(fr, "SyntaxError", <<"invalid syntax">>), io |-> io]
    ELSE IF fr.ip > Len(fr.code)
    THEN [fr |-> [fr EXCEPT !.pc = "finally", !.outcome = "return",
                            !.value = Strip(io.streams[fr.captured_output])],
          io |-> io]
    ELSE LET st == StmtOf(fr.code[fr.ip])
             nxt == [fr EXCEPT !.ip = @ + 1]
         IN CASE st.kind = "print" -> [fr |-> nxt, io |-> Write(io, st.text)]
              [] st.kind = "raise" -> [fr |-> run_except(fr, st.cls, st.text), io |-> io]
              [] st.kind = "set_stdout" -> [fr |-> nxt, io |-> [io EXCEPT !.stdout = st.text]]
              [] OTHER -> [fr |-> nxt, io |-> io]

run_step(fr, io) ==
    IF fr.pc = "try" THEN run_try(fr, io) ELSE run_finally(fr, io)

RECURSIVE run_to_end(_)
run_to_end(r) == IF r.fr.pc = "done" THEN r ELSE run_to_end(run_step(r.fr, r.io))

\* a StringIO is freed once no frame and no sys.stdout refers to it
Collect(io, frames) ==
    LET live == {io.stdout} \cup {frames[w].old_stdout : w \in DOMAIN frames}
                 \cup {frames[w].captured_output : w \in DOMAIN frames}
    IN [io EXCEPT !.streams = [b \in DOMAIN io.streams \cap live |-> io.streams[b]]]

\* execute_code_safely(code, session_id) as one call of a worker that nothing
\* interleaves with: the value returned or the exception raised, and sys.stdout
\* and the streams after it
execute_code_safely(code, io) ==
    LET r == run_to_end(run_begin(code, io)) IN
    [outcome |-> r.fr.outcome, value |-> r.fr.value, exc |-> r.fr.exc,
     io |-> Collect(r.io, <<>>)]

Workers == {1}

Scripts == UNION {[1..n -> Statements] : n \in 0..MaxScriptLen}

IO == [stdout |-> sys_stdout, streams |-> streams]

RunCall(w) ==
    /\ run[w].pc = "idle"
    /\ \E code \in Scripts :
          LET r == run_begin(code, IO) IN
          /\ run' = [run EXCEPT ![w] = r.fr]
          /\ sys_stdout' = r.io.stdout
          /\ streams' = r.io.streams
    /\ UNCHANGED <<ai_agent, genai_api_key, op, served, loop, sessions, now, appended, answer>>

RunStep(w) ==
    /\ run[w].pc \in {"try", "finally"}
    /\ LET r == run_step(run[w], IO) IN
          /\ run' = [run EXCEPT ![w] = r.fr]
          /\ sys_stdout' = r.io.stdout
          /\ streams' = r.io.streams
    /\ UNCHANGED <<ai_agent, genai_api_key, op, served, loop, sessions, now, appended, answer>>

\* the caller has the result (or the exception); the frame is gone
RunReturn(w) ==
    /\ run[w].pc = "done"
    /\ run' = [run EXCEPT ![w] = IdleFrame]
    /\ streams' = Collect(IO, run').streams
    /\ UNCHANGED <<ai_agent, genai_api_key, op, served, sys_stdout, loop, sessions, now, appended,
                   answer>>

\* SpecRun: a single worker calls execute_code_safely again and again, with
\* sys.stdout being the console or a stream installed before
InitRun ==
    /\ ai_agent = AgentInit(<<>>)
    /\ genai_api_key = None
    /\ op = OpRec("init", None, TRUE, <<>>, <<>>, 0)
    /\ served = <<>>
    /\ sys_stdout \in {Console, Stderr}
    /\ streams = <<>>
    /\ run = [w \in Workers |-> IdleFrame]
    /\ loop = Idle
    /\ sessions = <<>>
    /\ now = 0
    /\ appended = <<>>
    /\ answer = NoAnswer

NextRun ==
    \E w \in Workers : RunCall(w) \/ RunStep(w) \/ RunReturn(w)

SpecRun == InitRun /\ [][NextRun]_vars

-----------------------------------------------------------------------------
(* The retrying operations: _generate_code_with_retry, _execute_code_with_retry *)
(* and _fix_code_based_on_error.  Each recursive call is one step.              *)

max_retry_attempts == 3
max_code_generation_attempts == 2

Terminal == {"returned", "failed", "propagated"}

PandasPrompt == <<"<pandas_prompt>">>

\* line 403: the notice a retry appends to the prompt
error_context(attempt) ==
    <<NL, NL, "IMPORTANT: This is attempt #", ToString(attempt),
      ". Previous attempts failed.">>

\* lines 402-406
generation_prompt(attempt) ==
    IF attempt > 1 THEN PandasPrompt \o error_context(attempt) ELSE PandasPrompt

GenerationFailedPrefix ==
    <<"Code generation failed after", ToString(max_code_generation_attempts), "attempts:">>

\* lines 412-427: what the checks of an attempt make of the inference result r:
\* the text of the exception raised in the try block, or None
generation_error(r) ==
    IF r.raised THEN r.ret
    ELSE IF r.ret = <<>> \/ Strip(r.ret) = <<>> THEN <<"Empty code generated">>
    ELSE IF ~Compiles(r.ret) THEN <<"Syntax error in generated code:", "invalid syntax">>
    ELSE None

\* an attempt that leaves the syntax check out
after_generation_unchecked(l, r) ==
    LET e == IF r.raised THEN r.ret
             ELSE IF r.ret = <<>> \/ Strip(r.ret) = <<>> THEN <<"Empty code generated">>
             ELSE None
        l1 == [l EXCEPT !.calls = Append(@, [prompt |-> generation_prompt(l.attempt),
                                             raised |-> r.raised, ret |-> r.ret])]
    IN IF e = None THEN [l1 EXCEPT !.pc = "returned", !.ret = r.ret]
       ELSE IF l.attempt < max_code_generation_attempts
       THEN [l1 EXCEPT !.attempt = @ + 1]
       ELSE [l1 EXCEPT !.pc = "failed", !.ret = GenerationFailedPrefix \o e]

\* lines 408-435: the frame after an attempt whose inference call gave r
after_generation(l, r) ==
    LET e == generation_error(r)
        l1 == [l EXCEPT !.calls = Append(@, [prompt |-> generation_prompt(l.attempt),
                                             raised |-> r.raised, ret |-> r.ret])]
    IN IF e = None THEN [l1 EXCEPT !.pc = "returned", !.ret = r.ret]
       ELSE IF l.attempt < max_code_generation_attempts
       THEN [l1 EXCEPT !.attempt = @ + 1]
       ELSE [l1 EXCEPT !.pc = "failed", !.ret = GenerationFailedPrefix \o e]

ExecutionFailedPrefix ==
    <<"Code execution failed after", ToString(max_retry_attempts), "attempts:">>

\* an attempt that compares with the ceiling off by one
after_execution_one_more(l, r) ==
    LET l1 == [l EXCEPT !.execs = Append(@, [code |-> l.code, outcome |-> r.outcome,
                                             value |-> r.value])]
    IN IF r.outcome = "raise"
       THEN [l1 EXCEPT !.pc = "propagated", !.ret = <<r.exc, ": ">> \o r.value]
       ELSE IF ~StartsWith(r.value, ErrorMarker)
       THEN [l1 EXCEPT !.pc = "returned", !.ret = r.value]
       ELSE IF l.attempt <= max_retry_attempts
       THEN [l1 EXCEPT !.pc = "fix", !.error = r.value]
       ELSE [l1 EXCEPT !.pc = "failed", !.ret = ExecutionFailedPrefix \o r.value]

\* an attempt that returns whatever the executor returned, without the test of
\* line 453
after_execution_trusting(l, r) ==
    LET l1 == [l EXCEPT !.execs = Append(@, [code |-> l.code, outcome |-> r.outcome,
                                             value |-> r.value])]
    IN IF r.outcome = "raise"
       THEN [l1 EXCEPT !.pc = "propagated", !.ret = <<r.exc, ": ">> \o r.value]
       ELSE [l1 EXCEPT !.pc = "returned", !.ret = r.value]

\* lines 447-471: the frame after an attempt whose executor call gave r; an
\* exception that is no Exception passes the handler of line 459
after_execution(l, r) ==
    LET l1 == [l EXCEPT !.execs = Append(@, [code |-> l.code, outcome |-> r.outcome,
                                             value |-> r.value])]
    IN IF r.outcome = "raise"
       THEN [l1 EXCEPT !.pc = "propagated", !.ret = <<r.exc, ": ">> \o r.value]
       ELSE IF ~StartsWith(r.value, ErrorMarker)
       THEN [l1 EXCEPT !.pc = "returned", !.ret = r.value]
       ELSE IF l.attempt < max_retry_attempts
       THEN [l1 EXCEPT !.pc = "fix", !.error = r.value]
       ELSE [l1 EXCEPT !.pc = "failed", !.ret = ExecutionFailedPrefix \o r.value]

\* _fix_code_based_on_error: the set of results over what the provider may answer
fix_code_based_on_error(self, configured, code, provider) ==
    { [self |-> r.self, configured |-> r.configured,
       ret |-> IF r.raised THEN code ELSE ExtractCode(r.ret),
       raised |-> r.raised, reqs |-> r.reqs, demotions |-> r.demotions] :
      r \in GeminiResults(self, configured, None, provider) }

\* a retry that goes on with the script that failed
after_fix_keep_code(l, fixed_code) ==
    [l EXCEPT !.pc = "execute", !.attempt = @ + 1,
              !.patches = Append(@, [code |-> l.code, fixed_code |-> fixed_code])]

\* a retry that does not count the attempt when the patch changed nothing
after_fix_free_retry(l, fixed_code) ==
    [l EXCEPT !.pc = "execute",
              !.attempt = IF fixed_code = l.code THEN @ ELSE @ + 1,
              !.code = fixed_code,
              !.patches = Append(@, [code |-> l.code, fixed_code |-> fixed_code])]

\* lines 463-468: the recursive call with the patched script
after_fix(l, fixed_code) ==
    [l EXCEPT !.pc = "execute", !.attempt = @ + 1, !.code = fixed_code,
              !.patches = Append(@, [code |-> l.code, fixed_code |-> fixed_code])]

GenProvider ==
    [responses |-> {<<>>, <<NL>>, <<SyntaxErrorStmt>>, <<"print('RESULT:42')">>,
                    <<FencePy, NL, "print('RESULT:42')", NL, Fence>>},
     errors |-> {<<"429", "RESOURCE_EXHAUSTED">>}]

FixProvider ==
    [responses |-> {<<"print('RESULT:42')">>, <<"raise ValueError('boom')">>,
                    <<FencePy, NL, "1/0", NL, Fence>>},
     errors |-> {<<"400">> \o KeySlot \o <<"rejected">>}]

LoopScripts ==
    {<<"print('RESULT:42')">>, <<"raise ValueError('boom')">>, <<"1/0">>,
     <<"print('Error executing code: x')">>, <<"raise SystemExit('boom')">>,
     <<SyntaxErrorStmt>>}

GenerateStart ==
    /\ loop.pc \in {"idle"} \cup Terminal
    /\ ai_agent.api_call_count < MaxCalls
    /\ loop' = [Idle EXCEPT !.pc = "generate", !.fn = "_generate_code_with_retry",
                            !.attempt = 1]
    /\ UNCHANGED <<ai_agent, genai_api_key, op, served, sys_stdout, streams, run, sessions, now, appended,
                   answer>>

GenerateAttempt ==
    /\ loop.pc = "generate"
    /\ IF loop.attempt > max_code_generation_attempts
       THEN \* lines 398-399, then the handler of line 429
            /\ loop' = [loop EXCEPT !.pc = "failed",
                            !.ret = GenerationFailedPrefix
                                      \o <<"Maximum code generation attempts exceeded">>]
            /\ UNCHANGED <<ai_agent, genai_api_key>>
       ELSE \E r \in call_llm_api(ai_agent, genai_api_key, GenProvider) :
            /\ ai_agent' = r.self
            /\ genai_api_key' = r.configured
            /\ loop' = after_generation(loop, r)
    /\ UNCHANGED <<op, served, sys_stdout, streams, run, sessions, now, appended, answer>>

ExecuteStart ==
    /\ loop.pc \in {"idle"} \cup Terminal
    /\ ai_agent.api_call_count < MaxCalls
    /\ \E code \in LoopScripts :
        loop' = [Idle EXCEPT !.pc = "execute", !.fn = "_execute_code_with_retry",
                             !.attempt = 1, !.code = code]
    /\ UNCHANGED <<ai_agent, genai_api_key, op, served, sys_stdout, streams, run, sessions, now, appended,
                   answer>>

ExecuteAttempt ==
    /\ loop.pc = "execute"
    /\ IF loop.attempt > max_retry_attempts
       THEN \* lines 440-441, then the handler of line 459
            /\ loop' = [loop EXCEPT !.pc = "failed",
                            !.ret = ExecutionFailedPrefix
                                      \o <<"Maximum execution attempts exceeded">>]
            /\ UNCHANGED <<sys_stdout, streams>>
       ELSE LET r == execute_code_safely(loop.code, IO) IN
            /\ loop' = after_execution(loop, r)
            /\ sys_stdout' = r.io.stdout
            /\ streams' = r.io.streams
    /\ UNCHANGED <<ai_agent, genai_api_key, op, served, run, sessions, now, appended, answer>>

FixCode ==
    /\ loop.pc = "fix"
    /\ \E f \in fix_code_based_on_error(ai_agent, genai_api_key, loop.code, FixProvider) :
        /\ ai_agent' = f.self
        /\ genai_api_key' = f.configured
        /\ loop' = after_fix(loop, f.ret)
        /\ op' = OpRec("_fix_code_based_on_error", None, ~f.raised, f.ret, f.reqs, f.demotions)
    /\ UNCHANGED <<served, sys_stdout, streams, run, sessions, now, appended, answer>>

-----------------------------------------------------------------------------
(* Decomposition: _break_down_query_into_tasks and _fallback_task_breakdown.    *)
(* A question is a text of characters; a Python value is a record of its type,  *)
(* of what iterating over it yields (the items of a list, the keys of a dict,   *)
(* the characters of a str) and, for a task dict, of its entries.               *)

NoTask ==
    [task_id |-> None, description |-> None, query |-> None, chart_type |-> "",
     priority |-> 0]

PyValue(type, items, task) == [type |-> type, items |-> items, task |-> task]

PyList(items) == PyValue("list", items, NoTask)

TaskDict(task_id, description, query, chart_type, priority) ==
    PyValue("dict", <<"task_id", "description", "query", "chart_type", "priority">>,
            [task_id |-> task_id, description |-> description, query |-> query,
             chart_type |-> chart_type, priority |-> priority])

\* the questions of the model: "", "show rows", "What is the highest salary",
\* "PIE of Department", "somewhat spied" and one with every keyword
Queries ==
    { <<>>,
      <<"s", "h", "o", "w", WS, "r", "o", "w", "s">>,
      <<"W", "h", "a", "t", WS, "i", "s", WS, "t", "h", "e", WS, "h", "i", "g", "h",
        "e", "s", "t", WS, "s", "a", "l", "a", "r", "y">>,
      <<"P", "I", "E", WS, "o", "f", WS, "D", "e", "p", "a", "r", "t", "m", "e", "n",
        "t">>,
      <<"s", "o", "m", "e", "w", "h", "a", "t", WS, "s", "p", "i", "e", "d">>,
      <<"D", "e", "s", "c", "r", "i", "p", "t", "i", "o", "n", WS, "p", "i", "e", "c",
        "h", "a", "r", "t", WS, "M", "a", "x", "i", "m", "u", "m", WS, "s", "a", "l",
        "a", "r", "y", WS, "s", "e", "a", "t", "t", "l", "e">> }

KwDescription == <<"d", "e", "s", "c", "r", "i", "p", "t", "i", "o", "n">>
KwWhat == <<"w", "h", "a", "t">>
KwPie == <<"p", "i", "e">>
KwPiechart == <<"p", "i", "e", "c", "h", "a", "r", "t">>
KwHighestSalary == <<"h", "i", "g", "h", "e", "s", "t", WS, "s", "a", "l", "a", "r", "y">>
KwMaximumSalary == <<"m", "a", "x", "i", "m", "u", "m", WS, "s", "a", "l", "a", "r", "y">>
KwSeattle == <<"s", "e", "a", "t", "t", "l", "e">>
KwDepartment == <<"d", "e", "p", "a", "r", "t", "m", "e", "n", "t">>

FallbackKeywords ==
    { KwDescription, KwWhat, KwPie, KwPiechart, KwHighestSalary, KwMaximumSalary,
      KwSeattle, KwDepartment }

\* the four keyword rules in their order: whether the rule matches the
\* lower-cased question, and the task it appends
FallbackRules(q) ==
    << [match |-> Contains(q, KwDescription) \/ Contains(q, KwWhat),
        description |-> <<"General dataset description">>,
        query |-> <<"Provide a general description of the dataset">>,
        chart_type |-> "none"],
       [match |-> Contains(q, KwPie) \/ Contains(q, KwPiechart),
        description |-> <<"Department population pie chart">>,
        query |-> <<"Create a pie chart showing department population spread">>,
        chart_type |-> "pie"],
       [match |-> Contains(q, KwHighestSalary) \/ Contains(q, KwMaximumSalary),
        description |-> <<"Find highest salary">>,
        query |-> <<"What is the highest salary in the dataset?">>,
        chart_type |-> "none"],
       [match |-> Contains(q, KwSeattle) \/ Contains(q, KwDepartment),
        description |-> <<"Department analysis for Seattle employees">>,
        query |-> <<"Which department has the most employees from Seattle?">>,
        chart_type |-> "bar"] >>

\* f"task_{task_counter}"
TaskId(task_counter) == <<"task_", ToString(task_counter)>>

\* a counter that is never advanced
NextCounter_stuck(task_counter) == task_counter

\* task_counter += 1
NextCounter(task_counter) == task_counter + 1

RECURSIVE ApplyRules(_, _, _, _)
\* lines 812-851: the rules from the i-th on, with the tasks appended so far
ApplyRules(rules, i, tasks, task_counter) ==
    IF i > Len(rules) THEN tasks
    ELSE IF rules[i].match
    THEN ApplyRules(rules, i + 1,
                    Append(tasks, TaskDict(TaskId(task_counter), rules[i].description,
                                           rules[i].query, rules[i].chart_type,
                                           task_counter)),
                    NextCounter(task_counter))
    ELSE ApplyRules(rules, i + 1, tasks, task_counter)

\* _fallback_task_breakdown(query)
fallback_task_breakdown(query) ==
    LET tasks == ApplyRules(FallbackRules(Lower(query)), 1, <<>>, 1) IN
    IF tasks = <<>>
    THEN PyList(<<TaskDict(<<"task_", "1">>, <<"General analysis">>, query, "none", 1)>>)
    ELSE PyList(tasks)

\* the JSON tokens of the model and the value json.loads gives for each
JsonTask1 == "{task_1}"
JsonTask2 == "{task_2}"

JsonToken(tok) ==
    CASE tok = JsonTask1 ->
            TaskDict(<<"task_", "1">>, <<"count rows">>, <<"How many rows?">>, "none", 1)
      [] tok = JsonTask2 ->
            TaskDict(<<"task_", "2">>, <<"share">>, <<"Share by department?">>, "pie", 2)
      [] tok = "{}" -> PyValue("dict", <<>>, NoTask)
      [] tok = "{\"a\": 1}" -> PyValue("dict", <<"a">>, NoTask)
      [] tok = "42" -> PyValue("int", <<>>, NoTask)
      [] tok = "null" -> PyValue("NoneType", <<>>, NoTask)
      [] tok = "\"\"" -> PyValue("str", <<>>, NoTask)
      [] tok = "\"ab\"" -> PyValue("str", <<"a", "b">>, NoTask)
      [] OTHER -> PyValue("invalid", <<>>, NoTask)

IsJsonToken(tok) == JsonToken(tok).type # "invalid"

RECURSIVE Unspaced(_)
\* the text without its whitespace tokens
Unspaced(s) ==
    IF s = <<>> THEN <<>>
    ELSE IF IsSpace(Head(s)) THEN Unspaced(Tail(s))
    ELSE <<Head(s)>> \o Unspaced(Tail(s))

\* json.loads(text): ok and the value, or not ok for a JSONDecodeError
json_loads(text) ==
    LET t == Unspaced(text)
        n == Len(t)
        inner == IF n >= 2 THEN Slice(t, 2, n - 1) ELSE <<>>
        m == Len(inner)
    IN IF n = 1 /\ IsJsonToken(t[1])
       THEN [ok |-> TRUE, value |-> JsonToken(t[1])]
       ELSE IF /\ n >= 2 /\ t[1] = "[" /\ t[n] = "]"
               /\ (m = 0 \/ m % 2 = 1)
               /\ \A i \in 1..m : IF i % 2 = 1 THEN IsJsonToken(inner[i]) ELSE inner[i] = ","
       THEN [ok |-> TRUE,
             value |-> PyList([i \in 1..((m + 1) \div 2) |-> JsonToken(inner[2 * i - 1])])]
       ELSE [ok |-> FALSE, value |-> PyValue("invalid", <<>>, NoTask)]

\* Python: len(tasks) at line 787 raises TypeError
LenRaises(v) == v.type \notin {"list", "dict", "str"}

\* Python: task.get at line 789 raises AttributeError for something the loop
\* binds task to
GetRaises(v) ==
    IF v.type = "list" THEN \E i \in 1..Len(v.items) : v.items[i].type # "dict"
    ELSE v.items # <<>>

\* lines 782-802: what _break_down_query_into_tasks returns when its call of
\* _call_gemini_api gave r
break_down_query_into_tasks(query, r) ==
    IF r.raised THEN fallback_task_breakdown(query)
    ELSE IF r.ret = <<>> THEN fallback_task_breakdown(query)
    ELSE LET j == json_loads(r.ret) IN
         IF ~j.ok THEN fallback_task_breakdown(query)
         ELSE IF LenRaises(j.value) \/ GetRaises(j.value) THEN fallback_task_breakdown(query)
         ELSE j.value

DecomposeProvider ==
    [responses |-> { <<"[", NL, JsonTask1, ",", WS, JsonTask2, NL, "]">>,
                     <<"[", "]">>, <<"[", "42", "]">>, <<"{}">>, <<"{\"a\": 1}">>,
                     <<"42">>, <<"null">>, <<"\"\"">>, <<"\"ab\"">>,
                     <<"Here", WS, "are", WS, "the", WS, "tasks">>, <<>>, <<WS>>,
                     <<Fence, "json", NL, "[", JsonTask1, "]", NL, Fence>> },
     errors |-> {<<"429", "RESOURCE_EXHAUSTED">>}]

BreakDownQueryIntoTasks ==
    /\ ai_agent.api_call_count < MaxCalls
    /\ \E query \in Queries :
       \E r \in GeminiResults(ai_agent, genai_api_key, None, DecomposeProvider) :
        /\ ai_agent' = r.self
        /\ genai_api_key' = r.configured
        /\ loop' = [Idle EXCEPT !.pc = "returned", !.fn = "_break_down_query_into_tasks",
                                !.code = query,
                                !.calls = <<[prompt |-> <<"<breakdown_prompt>">>,
                                             raised |-> r.raised, ret |-> r.ret]>>,
                                !.ret = break_down_query_into_tasks(query, r)]
    /\ UNCHANGED <<op, served, sys_stdout, streams, run, sessions, now, appended, answer>>

FallbackTaskBreakdown ==
    /\ \E query \in Queries :
        loop' = [Idle EXCEPT !.pc = "returned", !.fn = "_fallback_task_breakdown",
                             !.code = query, !.ret = fallback_task_breakdown(query)]
    /\ UNCHANGED <<ai_agent, genai_api_key, op, served, sys_stdout, streams, run, sessions, now, appended,
                   answer>>

-----------------------------------------------------------------------------
(* Chat sessions: class ChatSessionManager and its global instance              *)
(* chat_session_manager (backend/app/services/chat_session_manager.py).         *)

session_timeout == 3600
history_limit == 20

\* appends to the histories, and context updates of one session, in a behaviour
MaxAppends == 2
MaxMessages == 1

ChatIds == {"c1", "c2"}
\* the database sessions a file was uploaded for
DbSessions == {"db1"}
Messages == {"user: how many rows", "assistant: 42"}

\* the values of the clock
Times == {0, 1, 3601}

\* ChatSession.__post_init__: the context of a session created with context={}
EmptyContext ==
    [schema_info |-> <<>>, last_query |-> None, last_result |-> None,
     conversation_history |-> <<>>, data_summary |-> None]

\* the ChatSession create_chat_session builds at time t
NewChatSession(chat_id, database_session_id, t) ==
    [session_id |-> database_session_id, chat_id |-> chat_id,
     database_session_id |-> database_session_id, created_at |-> t,
     last_activity |-> t, message_count |-> 0, context |-> EmptyContext]

\* del d[key]
DictDel(d, keys) == [k \in DOMAIN d \ keys |-> d[k]]

\* create_chat_session, for the chat id uuid4 gave (one never given before)
create_chat_session(ss, chat_id, database_session_id, t) ==
    [sessions |-> DictSet(ss, chat_id, NewChatSession(chat_id, database_session_id, t)),
     ret |-> chat_id]

\* a lookup that does not find a session idle for longer than the timeout
get_chat_session_unexpired(ss, chat_id, t) ==
    IF chat_id \in DOMAIN ss /\ t - ss[chat_id].last_activity <= session_timeout
    THEN [sessions |-> [ss EXCEPT ![chat_id].last_activity = t], found |-> TRUE]
    ELSE [sessions |-> ss, found |-> FALSE]

\* a lookup that refreshes every session of the map
get_chat_session_touch_all(ss, chat_id, t) ==
    IF chat_id \in DOMAIN ss
    THEN [sessions |-> [c \in DOMAIN ss |-> [ss[c] EXCEPT !.last_activity = t]],
          found |-> TRUE]
    ELSE [sessions |-> ss, found |-> FALSE]

\* get_chat_session: found is whether a session is returned
get_chat_session(ss, chat_id, t) ==
    IF chat_id \in DOMAIN ss
    THEN [sessions |-> [ss EXCEPT ![chat_id].last_activity = t], found |-> TRUE]
    ELSE [sessions |-> ss, found |-> FALSE]

\* dict.update for the keys of a context
ContextUpdate(context, context_updates) ==
    [k \in DOMAIN context |->
        IF k \in DOMAIN context_updates THEN context_updates[k] ELSE context[k]]

update_chat_context(ss, chat_id, context_updates, t) ==
    LET g == get_chat_session(ss, chat_id, t) IN
    IF g.found
    THEN [sessions |-> [g.sessions EXCEPT
                           ![chat_id].context = ContextUpdate(@, context_updates),
                           ![chat_id].message_count = @ + 1],
          ret |-> TRUE]
    ELSE [sessions |-> g.sessions, ret |-> FALSE]

\* Python: s[-n:]
SliceLast(s, n) == IF Len(s) <= n THEN s ELSE SubSeq(s, Len(s) - n + 1, Len(s))

\* Python: s[:n]
SliceFirst(s, n) == IF Len(s) <= n THEN s ELSE SubSeq(s, 1, n)

\* an append that trims the history from the wrong end
add_message_to_history_keep_first(ss, chat_id, message, t) ==
    LET g == get_chat_session(ss, chat_id, t) IN
    IF g.found
    THEN LET h == Append(g.sessions[chat_id].context.conversation_history,
                         [timestamp |-> t, message |-> message])
         IN [sessions |-> [g.sessions EXCEPT ![chat_id].context.conversation_history =
                              IF Len(h) > history_limit THEN SliceFirst(h, history_limit)
                              ELSE h],
             ret |-> TRUE]
    ELSE [sessions |-> g.sessions, ret |-> FALSE]

add_message_to_history(ss, chat_id, message, t) ==
    LET g == get_chat_session(ss, chat_id, t) IN
    IF g.found
    THEN LET h == Append(g.sessions[chat_id].context.conversation_history,
                         [timestamp |-> t, message |-> message])
         IN [sessions |-> [g.sessions EXCEPT ![chat_id].context.conversation_history =
                              IF Len(h) > history_limit THEN SliceLast(h, history_limit)
                              ELSE h],
             ret |-> TRUE]
    ELSE [sessions |-> g.sessions, ret |-> FALSE]

\* a sweep that also removes the sessions idle for exactly the timeout
cleanup_expired_sessions_inclusive(ss, t) ==
    LET expired_sessions == {c \in DOMAIN ss : t - ss[c].last_activity >= session_timeout}
    IN [sessions |-> DictDel(ss, expired_sessions), ret |-> Cardinality(expired_sessions)]

cleanup_expired_sessions(ss, t) ==
    LET expired_sessions == {c \in DOMAIN ss : t - ss[c].last_activity > session_timeout}
    IN [sessions |-> DictDel(ss, expired_sessions), ret |-> Cardinality(expired_sessions)]

RECURSIVE SumOver(_, _)
SumOver(f, keys) ==
    IF keys = {} THEN 0
    ELSE LET k == CHOOSE k \in keys : TRUE IN f[k] + SumOver(f, keys \ {k})

\* get_session_stats: the listing reads the map and leaves it as it is
get_session_stats(ss, t) ==
    [sessions |-> ss,
     ret |-> [active_sessions |-> Cardinality(DOMAIN ss),
              total_messages |-> SumOver([c \in DOMAIN ss |-> ss[c].message_count], DOMAIN ss),
              session_timeout |-> session_timeout]]

delete_chat_session(ss, chat_id) ==
    IF chat_id \in DOMAIN ss
    THEN [sessions |-> DictDel(ss, {chat_id}), ret |-> TRUE]
    ELSE [sessions |-> ss, ret |-> FALSE]

Tick ==
    /\ \E t \in Times : t > now /\ now' = t
    /\ op' = OpRec("tick", None, TRUE, <<>>, <<>>, 0)
    /\ UNCHANGED <<ai_agent, genai_api_key, served, sys_stdout, streams, run, loop,
                   sessions, appended, answer>>

CreateChatSession ==
    /\ \E chat_id \in ChatIds \ DOMAIN appended, db \in DbSessions :
        LET r == create_chat_session(sessions, chat_id, db, now) IN
        /\ sessions' = r.sessions
        /\ appended' = DictSet(appended, chat_id, <<>>)
        /\ op' = OpRec("create_chat_session", r.ret, TRUE, <<>>, <<>>, 0)
    /\ UNCHANGED <<ai_agent, genai_api_key, served, sys_stdout, streams, run, loop, now,
                   answer>>

GetChatSession ==
    /\ \E chat_id \in ChatIds :
        LET r == get_chat_session(sessions, chat_id, now) IN
        /\ sessions' = r.sessions
        \* ret: whether the session returned had been idle for longer than the timeout
        /\ op' = OpRec("get_chat_session", chat_id, r.found,
                       IF r.found /\ now - sessions[chat_id].last_activity > session_timeout
                       THEN <<"expired">> ELSE <<>>,
                       <<>>, 0)
    /\ UNCHANGED <<ai_agent, genai_api_key, served, sys_stdout, streams, run, loop, now,
                   appended, answer>>

UpdateChatContext ==
    /\ \E chat_id \in ChatIds :
        /\ chat_id \in DOMAIN sessions => sessions[chat_id].message_count < MaxMessages
        /\ LET r == update_chat_context(sessions, chat_id,
                                        [last_query |-> <<"how many rows">>], now) IN
           /\ sessions' = r.sessions
           /\ op' = OpRec("update_chat_context", chat_id, r.ret, <<>>, <<>>, 0)
    /\ UNCHANGED <<ai_agent, genai_api_key, served, sys_stdout, streams, run, loop, now,
                   appended, answer>>

\* the messages of the logs that are not those of the initial history
NewAppends ==
    SumOver([c \in DOMAIN appended |->
                Len(SelectSeq(appended[c], LAMBDA m : m \in Messages))],
            DOMAIN appended)

AddMessageToHistory ==
    /\ \E chat_id \in ChatIds, message \in Messages :
        /\ NewAppends < MaxAppends
        /\ LET r == add_message_to_history(sessions, chat_id, message, now) IN
           /\ sessions' = r.sessions
           /\ appended' = IF chat_id \in DOMAIN sessions
                          THEN [appended EXCEPT ![chat_id] = Append(@, message)]
                          ELSE appended
           /\ op' = OpRec("add_message_to_history", chat_id, r.ret, <<message>>, <<>>, 0)
    /\ UNCHANGED <<ai_agent, genai_api_key, served, sys_stdout, streams, run, loop, now,
                   answer>>

CleanupExpiredSessions ==
    /\ LET r == cleanup_expired_sessions(sessions, now) IN
        /\ sessions' = r.sessions
        /\ UNCHANGED appended
        /\ op' = OpRec("cleanup_expired_sessions", None, TRUE, <<r.ret>>, <<>>, 0)
    /\ UNCHANGED <<ai_agent, genai_api_key, served, sys_stdout, streams, run, loop, now,
                   answer>>

DeleteChatSession ==
    /\ \E chat_id \in ChatIds :
        LET r == delete_chat_session(sessions, chat_id) IN
        /\ sessions' = r.sessions
        /\ UNCHANGED appended
        /\ op' = OpRec("delete_chat_session", chat_id, r.ret, <<>>, <<>>, 0)
    /\ UNCHANGED <<ai_agent, genai_api_key, served, sys_stdout, streams, run, loop, now,
                   answer>>

GetSessionStats ==
    /\ LET r == get_session_stats(sessions, now) IN
        /\ sessions' = r.sessions
        /\ op' = OpRec("get_session_stats", None, TRUE, <<>>, <<>>, 0)
    /\ UNCHANGED <<ai_agent, genai_api_key, served, sys_stdout, streams, run, loop, now,
                   appended, answer>>

\* a history of n messages appended at time 0
EarlierHistory(n) == [i \in 1..n |-> [timestamp |-> 0, message |-> "earlier"]]

\* SpecChat: the session manager from construction on, or with a session c1 whose
\* history already holds history_limit - 1 or history_limit messages
InitChat ==
    /\ ai_agent = AgentInit(<<>>)
    /\ genai_api_key = None
    /\ op = OpRec("init", None, TRUE, <<>>, <<>>, 0)
    /\ served = <<>>
    /\ sys_stdout = Console
    /\ streams = <<>>
    /\ run = [w \in Workers |-> IdleFrame]
    /\ loop = Idle
    /\ now = 0
    /\ answer = NoAnswer
    /\ \E n \in {0, history_limit - 1, history_limit} :
          IF n = 0
          THEN sessions = <<>> /\ appended = <<>>
          ELSE /\ sessions = ("c1" :> [NewChatSession("c1", "db1", 0) EXCEPT
                                          !.context.conversation_history = EarlierHistory(n)])
               /\ appended = ("c1" :> [i \in 1..n |-> "earlier"])

NextChat ==
    \/ Tick
    \/ CreateChatSession
    \/ GetChatSession
    \/ UpdateChatContext
    \/ AddMessageToHistory
    \/ CleanupExpiredSessions
    \/ GetSessionStats
    \/ DeleteChatSession

SpecChat == InitChat /\ [][NextChat]_vars

\* SpecEvict: the session manager from construction on (line 153)
InitEvict ==
    /\ ai_agent = AgentInit(<<>>)
    /\ genai_api_key = None
    /\ op = OpRec("init", None, TRUE, <<>>, <<>>, 0)
    /\ served = <<>>
    /\ sys_stdout = Console
    /\ streams = <<>>
    /\ run = [w \in Workers |-> IdleFrame]
    /\ loop = Idle
    /\ now = 0
    /\ answer = NoAnswer
    /\ sessions = <<>>
    /\ appended = <<>>

SpecEvict == InitEvict /\ [][NextChat]_vars

-----------------------------------------------------------------------------
(* Synthesis, the parsing of its result and the merge of the task results       *)
(* (_synthesize_result_with_retry, _parse_synthesis_result,                     *)
(* _generate_chart_data, get_answer_with_task_breakdown lines 968-1009).        *)
(* A synthesis text is a sequence of tokens in which "|", "Answer:", "Chart:",  *)
(* "Data:" and the spaces between them are tokens of their own.                 *)

max_synthesis_attempts == 2

Bar == "|"
ChartNone == <<"none">>
RecognisedCharts == {<<"bar">>, <<"pie">>, <<"line">>, <<"scatter">>}

\* Python: bool(v) for a text, None or a missing key
Truthy(v) == v # None /\ v # Absent /\ v # <<>>

RECURSIVE Split(_, _)
\* Python: s.split(sep) for a one-token separator
Split(s, sep) ==
    IF \A i \in 1..Len(s) : s[i] # sep THEN <<s>>
    ELSE LET k == CHOOSE k \in 1..Len(s) :
                     s[k] = sep /\ \A j \in 1..(k - 1) : s[j] # sep
         IN <<Slice(s, 1, k - 1)>> \o Split(Slice(s, k + 1, Len(s)), sep)

\* The raw output is read by regular expressions (lines 1239-1378).  Its tokens
\* are split into lexemes: runs of letters, runs of digits, dollar amounts,
\* punctuation and white space, no two runs of word characters being adjacent.
WordLexemes ==
    {"Engineering", "Sales", "RESULT", "has", "employees", "employee", "in", "unique",
     "cities", "department", "the", "most", "from", "Seattle", "total", "no", "rows"}

NumberLexemes == {"5", "4", "2", "42", "07", "55", "95", "000"}

\* Python: int(s) for a run of digits
IntOf(s) ==
    CASE s = "5" -> 5
      [] s = "4" -> 4
      [] s = "2" -> 2
      [] s = "7" -> 7
      [] s = "42" -> 42
      [] s = "07" -> 7
      [] s = "55" -> 55
      [] s = "95" -> 95
      [] OTHER -> 0

\* Python: len(s) for a run of digits
DigitCount(s) ==
    CASE s \in {"42", "07", "55", "95"} -> 2
      [] s = "000" -> 3
      [] OTHER -> 1

\* a run of two or more digits, as all but its last digit and its last digit
DigitSplit(s) ==
    CASE s = "42" -> <<"4", "2">>
      [] s = "07" -> <<"0", "7">>
      [] s = "55" -> <<"5", "5">>
      [] s = "95" -> <<"9", "5">>
      [] s = "000" -> <<"00", "0">>
      [] OTHER -> <<>>

RECURSIVE Lex(_)
\* the lexemes of a text
Lex(s) ==
    IF s = <<>> THEN <<>>
    ELSE (CASE s[1] = "RESULT:42" -> <<"RESULT", ":", "42">>
            [] s[1] = "$55,000" -> <<"$", "55", ",", "000">>
            [] s[1] = "$95,000" -> <<"$", "95", ",", "000">>
            [] s[1] = "$," -> <<"$", ",">>
            [] s[1] = "no rows" -> <<"no", WS, "rows">>
            [] OTHER -> <<s[1]>>) \o Lex(Tail(s))

\* the elements of a pattern: a run of word characters (captured), a run of
\* digits (captured), white space, optional white space, an optional colon or
\* hyphen, one of some literal words
El(kind, toks) == [kind |-> kind, toks |-> toks]
PWord == El("word", {})
PDigits == El("digits", {})
PSpaces == El("spaces", {})
PAnySpaces == El("anyspaces", {})
PSeparator == El("separator", {})
PLit(toks) == El("lit", toks)

\* line 1239: (\w+):\s*(\d+)
department_pattern == <<PWord, PLit({":"}), PAnySpaces, PDigits>>

\* line 1258: (\w+)\s+has\s+employees\s+in\s+(\d+)\s+unique\s+cities?
city_pattern ==
    <<PWord, PSpaces, PLit({"has"}), PSpaces, PLit({"employees"}), PSpaces, PLit({"in"}),
      PSpaces, PDigits, PSpaces, PLit({"unique"}), PSpaces, PLit({"cities"})>>

\* line 1277: (\w+)\s+has\s+(\d+)\s+employees?
dept_pattern ==
    <<PWord, PSpaces, PLit({"has"}), PSpaces, PDigits, PSpaces,
      PLit({"employee", "employees"})>>

\* line 1296: (\w+)\s+department\s+has\s+the\s+most\s+employees?\s+from\s+Seattle
seattle_pattern ==
    <<PWord, PSpaces, PLit({"department"}), PSpaces, PLit({"has"}), PSpaces, PLit({"the"}),
      PSpaces, PLit({"most"}), PSpaces, PLit({"employee", "employees"}), PSpaces,
      PLit({"from"}), PSpaces, PLit({"Seattle"})>>

\* line 1377: (\w+)\s*[:\-]?\s*(\d+)
generic_pattern == <<PWord, PAnySpaces, PSeparator, PAnySpaces, PDigits>>

RECURSIVE SkipSpaces(_, _)
SkipSpaces(toks, i) ==
    IF i <= Len(toks) /\ IsSpace(toks[i]) THEN SkipSpaces(toks, i + 1) ELSE i

RECURSIVE MatchFrom(_, _, _, _, _)
\* the match of the elements of p from the k-th on at lexeme i: whether there
\* is one, the lexeme after it and the captured groups
MatchFrom(p, k, toks, i, caps) ==
    IF k > Len(p) THEN [ok |-> TRUE, next |-> i, caps |-> caps]
    ELSE LET e == p[k]
             here == i <= Len(toks)
             fail == [ok |-> FALSE, next |-> i, caps |-> caps]
         IN CASE e.kind = "word" ->
                   IF here /\ toks[i] \in WordLexemes \cup NumberLexemes
                   THEN MatchFrom(p, k + 1, toks, i + 1, Append(caps, toks[i])) ELSE fail
              [] e.kind = "digits" ->
                   IF here /\ toks[i] \in NumberLexemes
                   THEN MatchFrom(p, k + 1, toks, i + 1, Append(caps, toks[i])) ELSE fail
              [] e.kind = "spaces" ->
                   IF here /\ IsSpace(toks[i])
                   THEN MatchFrom(p, k + 1, toks, SkipSpaces(toks, i), caps) ELSE fail
              [] e.kind = "anyspaces" ->
                   MatchFrom(p, k + 1, toks, SkipSpaces(toks, i), caps)
              [] e.kind = "separator" ->
                   IF here /\ toks[i] \in {":", "-"}
                   THEN MatchFrom(p, k + 1, toks, i + 1, caps)
                   ELSE MatchFrom(p, k + 1, toks, i, caps)
              [] OTHER ->
                   IF here /\ toks[i] \in e.toks
                   THEN MatchFrom(p, k + 1, toks, i + 1, caps) ELSE fail

RECURSIVE FindAll(_, _, _)
\* Python: re.findall(p, raw_data), the matches from lexeme i on, left to right
\* and without overlap.  The generic pattern also matches inside a run of two or
\* more digits that nothing matching follows: all but the last digit as the
\* word, the last digit as the number.
FindAll(p, toks, i) ==
    IF i > Len(toks) THEN <<>>
    ELSE LET m == MatchFrom(p, 1, toks, i, <<>>) IN
         IF m.ok THEN <<m.caps>> \o FindAll(p, toks, m.next)
         ELSE IF p = generic_pattern /\ DigitSplit(toks[i]) # <<>>
         THEN <<DigitSplit(toks[i])>> \o FindAll(p, toks, i + 1)
         ELSE FindAll(p, toks, i + 1)

RECURSIVE AmountEnd(_, _)
\* the lexeme after the run of digits and commas that starts at lexeme i
AmountEnd(toks, i) ==
    IF i <= Len(toks) /\ toks[i] \in NumberLexemes \cup {","}
    THEN AmountEnd(toks, i + 1) ELSE i

RECURSIVE Salaries(_, _)
\* line 1312: re.findall(r'(\$[\d,]+)', raw_data) from lexeme i on, each match
\* without its dollar sign
Salaries(toks, i) ==
    IF i > Len(toks) THEN <<>>
    ELSE IF toks[i] = "$" /\ AmountEnd(toks, i + 1) > i + 1
    THEN <<Slice(toks, i + 1, AmountEnd(toks, i + 1) - 1)>>
             \o Salaries(toks, AmountEnd(toks, i + 1))
    ELSE Salaries(toks, i + 1)

RECURSIVE DecimalValue(_, _)
\* the number written by the runs of digits, v being that of the runs before
DecimalValue(runs, v) ==
    IF runs = <<>> THEN v
    ELSE DecimalValue(Tail(runs),
                      v * (CASE DigitCount(runs[1]) = 1 -> 10
                             [] DigitCount(runs[1]) = 2 -> 100
                             [] OTHER -> 1000) + IntOf(runs[1]))

\* line 1314: int(s.replace('$', '').replace(',', '')), -1 where int raises
\* because no digit is left
SalaryOf(s) ==
    LET runs == SelectSeq(s, LAMBDA tok : tok # ",")
    IN IF runs = <<>> THEN -1 ELSE DecimalValue(runs, 0)

\* Python: s[0] for a word
FirstCharacter(s) ==
    CASE s = "Engineering" -> "E"
      [] s = "Sales" -> "S"
      [] OTHER -> s

\* line 1301: match[0] for each match of a pattern with one group, which
\* re.findall returns as a string
SeattleLabels(matches) == [i \in 1..Len(matches) |-> FirstCharacter(matches[i][1])]

\* the first group and the number of the second group of each match
GroupLabels(matches) == [i \in 1..Len(matches) |-> matches[i][1]]
GroupNumbers(matches) == [i \in 1..Len(matches) |-> IntOf(matches[i][2])]

\* the dict _generate_chart_data returns: its type, the labels, the label of
\* its dataset (none in a pie chart) and the data (the colours are left out)
ChartDict(chart_type, labels, label, data) ==
    <<"{chart}">> \o chart_type \o <<"labels">> \o labels \o <<"label">> \o label
        \o <<"data">> \o [i \in 1..Len(data) |-> ToString(data[i])]

\* lines 1318-1330: the number of salaries in each of the five ranges
salary_counts(salary_values) ==
    LET in(lo, hi) == Len(SelectSeq(salary_values, LAMBDA v : lo <= v /\ v < hi))
    IN <<Len(SelectSeq(salary_values, LAMBDA v : v < 60000)), in(60000, 70000),
         in(70000, 80000), in(80000, 90000),
         Len(SelectSeq(salary_values, LAMBDA v : v >= 90000))>>

salary_ranges == <<"$50k-60k", "$60k-70k", "$70k-80k", "$80k-90k", "$90k+">>

\* lines 1374-1401: the generic pattern, which needs two matches
generic_chart_data(toks, chart_type) ==
    LET generic_matches == FindAll(generic_pattern, toks, 1) IN
    IF Len(generic_matches) >= 2
    THEN ChartDict(chart_type, GroupLabels(generic_matches),
                   IF chart_type = <<"bar">> THEN <<"Count">> ELSE <<"Value">>,
                   GroupNumbers(generic_matches))
    ELSE None

\* _generate_chart_data(raw_data, chart_type, data_description).  The statement
\* "import re" stands inside the branch of the bar chart (line 1236), which makes
\* re a local name of the whole function: for a bar chart the patterns are tried
\* in their order and then the generic pattern; for every other chart type the
\* first re.findall (line 1340 or 1378) raises UnboundLocalError, and the handler
\* of line 1403 returns None, as it does when a conversion raises.
generate_chart_data(raw_data, chart_type) ==
    LET toks == Lex(raw_data)
        matches == FindAll(department_pattern, toks, 1)
        city_matches == FindAll(city_pattern, toks, 1)
        dept_matches == FindAll(dept_pattern, toks, 1)
        seattle_matches == FindAll(seattle_pattern, toks, 1)
        salaries == Salaries(toks, 1)
        salary_values == [i \in 1..Len(salaries) |-> SalaryOf(salaries[i])]
    IN IF chart_type = <<"bar">>
       THEN IF matches # <<>>
            THEN ChartDict(chart_type, GroupLabels(matches), <<"Count">>,
                           GroupNumbers(matches))
            ELSE IF city_matches # <<>>
            THEN ChartDict(chart_type, GroupLabels(city_matches), <<"Unique Cities">>,
                           GroupNumbers(city_matches))
            ELSE IF dept_matches # <<>>
            THEN ChartDict(chart_type, GroupLabels(dept_matches), <<"Employee Count">>,
                           GroupNumbers(dept_matches))
            ELSE IF seattle_matches # <<>>
            THEN ChartDict(chart_type, SeattleLabels(seattle_matches),
                           <<"Seattle Employees">>, <<1>>)
            ELSE IF salaries # <<>>
            THEN IF \E i \in 1..Len(salaries) : salary_values[i] < 0
                 THEN None
                 ELSE ChartDict(chart_type, salary_ranges, <<"Number of Employees">>,
                                salary_counts(salary_values))
            ELSE generic_chart_data(toks, chart_type)
       ELSE None

\* the result dict of a task: the value of each key, Absent for a key it lacks
TaskResult(task_id, description, text, chart_type, chart_data, error, priority, has_counters, api_calls_made, total_tokens_used) ==
    [task_id |-> task_id, description |-> description, answer |-> text,
     chart_type |-> chart_type, chart_data |-> chart_data, error |-> error,
     priority |-> priority, has_counters |-> has_counters,
     api_calls_made |-> api_calls_made, total_tokens_used |-> total_tokens_used]

\* _parse_synthesis_result: answer, chart_type and chart_data of the result
parse_synthesis_result(synthesis_result, raw_data) ==
    IF Contains(synthesis_result, <<Bar, WS, "Chart:">>)
    THEN LET parts == Split(synthesis_result, Bar)
             answer_part == Strip(Replace(parts[1], <<"Answer:">>, <<>>))
             chart_part == IF Len(parts) > 1
                           THEN Strip(Replace(parts[2], <<"Chart:">>, <<>>)) ELSE <<>>
             data_part == IF Len(parts) > 2
                          THEN Strip(Replace(parts[3], <<"Data:">>, <<>>)) ELSE <<>>
             chart_type == Lower(chart_part)
         IN IF chart_type # ChartNone /\ chart_type \in RecognisedCharts
            THEN LET chart_data == generate_chart_data(raw_data, chart_type) IN
                 IF Truthy(chart_data)
                 THEN [answer |-> answer_part, chart_type |-> chart_type,
                       chart_data |-> chart_data]
                 ELSE [answer |-> answer_part, chart_type |-> ChartNone,
                       chart_data |-> data_part]
            ELSE [answer |-> answer_part, chart_type |-> chart_type,
                  chart_data |-> data_part]
    ELSE IF StartsWith(synthesis_result, <<"Answer:">>)
    THEN [answer |-> Strip(Replace(synthesis_result, <<"Answer:">>, <<>>)),
          chart_type |-> ChartNone, chart_data |-> None]
    ELSE [answer |-> IF Truthy(synthesis_result) THEN synthesis_result ELSE raw_data,
          chart_type |-> ChartNone, chart_data |-> None]

RECURSIVE combined_answer(_, _)
\* lines 971-975: the headings and answers of the results from the i-th on
combined_answer(results, i) ==
    IF i > Len(results) THEN <<>>
    ELSE <<"**", ToString(i), ". ">> \o results[i].description \o <<"**", NL>>
         \o results[i].answer \o <<NL, NL>> \o combined_answer(results, i + 1)

\* the filter with the chart type alone
ChartGenerated_type_only(r) == r.chart_type # ChartNone

\* Python: r.get('chart_type') != 'none' and r.get('chart_data')
ChartGenerated(r) == r.chart_type # ChartNone /\ Truthy(r.chart_data)

\* lines 981-986: the first pie chart if there is one, else the first chart
select_chart(charts_generated) ==
    LET pie_charts == SelectSeq(charts_generated, LAMBDA r : r.chart_type = <<"pie">>) IN
    IF pie_charts # <<>> THEN pie_charts[1] ELSE charts_generated[1]

\* lines 968-1009: the response built from the results of the tasks
combine_results(self, results) ==
    LET text == <<"I've analyzed your request and completed", ToString(Len(results)),
                  "tasks:", NL, NL>> \o combined_answer(results, 1)
        charts_generated == SelectSeq(results, ChartGenerated)
    IN IF charts_generated # <<>>
       THEN LET selected_chart == select_chart(charts_generated) IN
            Response(Absent, text, selected_chart.chart_type, selected_chart.chart_data,
                     TRUE, self.api_call_count, self.total_tokens_used, TRUE, results)
       ELSE Response(Absent, text, ChartNone, None,
                     TRUE, self.api_call_count, self.total_tokens_used, TRUE, results)

-----------------------------------------------------------------------------
\* the entries of a task dict of the breakdown
Task(task_id, description, query, chart_type, priority) ==
    TaskDict(task_id, description, query, chart_type, priority).task

\* lines 903-910: the parsed synthesis result with the metadata of its task
task_result(self, task, parsed) ==
    TaskResult(task.task_id, task.description, parsed.answer, parsed.chart_type,
               parsed.chart_data, Absent, task.priority,
               TRUE, self.api_call_count, self.total_tokens_used)

\* lines 912-922 (and 874-898): the result of a task that failed
task_error(task, text, error) ==
    TaskResult(task.task_id, task.description, text \o task.query, ChartNone, None,
               error, 0, FALSE, 0, 0)

\* SpecMerge: the merge applied to every list of up to MaxResults task results
\* that _process_single_task can produce from the synthesis texts and the raw
\* outputs below

MaxResults == 3

SynthTexts ==
    { <<"Answer:", WS, "42 rows">>,
      <<"42 rows">>,
      <<"Answer:", WS, "share", WS, Bar, WS, "Chart:", WS, "Pie", WS, Bar, WS, "Data:", WS,
        "by department">>,
      <<"Answer:", WS, "count", WS, Bar, WS, "Chart:", WS, "bar", WS, Bar, WS, "Data:", WS,
        "by department">>,
      <<"Answer:", WS, "trend", WS, Bar, WS, "Chart:", WS, "line", WS, Bar, WS, "Data:", WS,
        "by year">>,
      <<"Answer:", WS, "none", WS, Bar, WS, "Chart:", WS, "none", WS, Bar, WS, "Data:", WS,
        "nothing">>,
      <<"Answer:", WS, "spread", WS, Bar, WS, "Chart:", WS, "histogram">>,
      <<"Answer:", WS, "spread", WS, Bar, WS, "Chart:", WS, "histogram", WS, Bar, WS,
        "Data:", WS, "salary">> }

RawOutputs == { <<"RESULT:42">>, <<"RESULT:42", NL, "RESULT:42">>, <<"no rows">> }

MergeTask(i) ==
    Task(TaskId(i), <<"task", ToString(i)>>, <<"question", ToString(i)>>, "none", i)

\* what the processing of a task can end with: a parsed synthesis result, or
\* the text of an exception
TaskOutcomes ==
    { [raised |-> FALSE, parsed |-> parse_synthesis_result(t, raw), error |-> <<>>] :
        t \in SynthTexts, raw \in RawOutputs }
    \cup { [raised |-> TRUE, parsed |-> parse_synthesis_result(<<>>, <<>>),
            error |-> GenerationFailedPrefix \o <<"Empty code generated">>] }

\* what _process_single_task returns for the i-th task when it ends with o
ProcessedTask(self, i, o) ==
    IF o.raised
    THEN task_error(MergeTask(i), <<"I encountered an error while processing: ">>, o.error)
    ELSE task_result(self, MergeTask(i), o.parsed)

CombineResults ==
    /\ answer.pc = "combine"
    /\ answer' = [answer EXCEPT !.pc = "returned",
                                !.response = combine_results(ai_agent, answer.results)]
    /\ UNCHANGED <<ai_agent, genai_api_key, op, served, sys_stdout, streams, run, loop,
                   sessions, now, appended>>

InitMerge ==
    /\ ai_agent = AgentInit(<<"kE">>)
    /\ genai_api_key = ai_agent.env_api_key
    /\ op = OpRec("init", None, TRUE, <<>>, <<>>, 0)
    /\ served = <<>>
    /\ sys_stdout = Console
    /\ streams = <<>>
    /\ run = [w \in Workers |-> IdleFrame]
    /\ loop = Idle
    /\ sessions = <<>>
    /\ now = 0
    /\ appended = <<>>
    /\ \E n \in 1..MaxResults :
       \E outcomes \in [1..n -> TaskOutcomes] :
          answer = [NoAnswer EXCEPT
                      !.pc = "combine",
                      !.fn = "get_answer_with_task_breakdown",
                      !.mode = "tasks",
                      !.results = [i \in 1..n |-> ProcessedTask(ai_agent, i, outcomes[i])]]

NextMerge == CombineResults

SpecMerge == InitMerge /\ [][NextMerge]_vars

-----------------------------------------------------------------------------
(* The top-level calls: get_answer_with_task_breakdown (with its fallback       *)
(* get_answer) and get_answer_with_chat_context.  A call is a frame in answer;  *)
(* it advances by one provider request or one executor invocation per step,    *)
(* the retry loop it is in being the frame in loop.                             *)

\* the session ids of the model: those a file was uploaded for, and one without
AnswerSessions == DbSessions \cup {"db0"}

\* data_processor.get_table_schema(session_id): the tables of the session (none:
\* the empty dict), or the HTTPException it raises when the database fails
get_table_schema(session_id, db_ok) ==
    IF ~db_ok
    THEN [raised |-> TRUE, ret |-> <<"500: Error retrieving schema: ", "connection refused">>]
    ELSE [raised |-> FALSE,
          ret |-> IF session_id \in DbSessions THEN <<"data_", session_id, "_sheet1">>
                  ELSE <<>>]

SynthesisFailedPrefix ==
    <<"Synthesis failed after", ToString(max_synthesis_attempts), "attempts:">>

\* a synthesis that asks again, at the same attempt, when the output is empty
after_synthesis_again(l, r) ==
    LET e == IF r.raised THEN r.ret
             ELSE IF r.ret = <<>> \/ Strip(r.ret) = <<>> THEN <<"Empty synthesis result">>
             ELSE None
        l1 == [l EXCEPT !.calls = Append(@, [prompt |-> <<"<synthesis_prompt>">>,
                                             raised |-> r.raised, ret |-> r.ret])]
    IN IF e = None THEN [l1 EXCEPT !.pc = "returned", !.ret = r.ret]
       ELSE IF ~r.raised THEN l1
       ELSE IF l.attempt < max_synthesis_attempts
       THEN [l1 EXCEPT !.attempt = @ + 1]
       ELSE [l1 EXCEPT !.pc = "failed", !.ret = SynthesisFailedPrefix \o e]

\* _synthesize_result_with_retry (lines 519-546): the frame after an attempt whose
\* inference call gave r
after_synthesis(l, r) ==
    LET e == IF r.raised THEN r.ret
             ELSE IF r.ret = <<>> \/ Strip(r.ret) = <<>> THEN <<"Empty synthesis result">>
             ELSE None
        l1 == [l EXCEPT !.calls = Append(@, [prompt |-> <<"<synthesis_prompt>">>,
                                             raised |-> r.raised, ret |-> r.ret])]
    IN IF e = None THEN [l1 EXCEPT !.pc = "returned", !.ret = r.ret]
       ELSE IF l.attempt < max_synthesis_attempts
       THEN [l1 EXCEPT !.attempt = @ + 1]
       ELSE [l1 EXCEPT !.pc = "failed", !.ret = SynthesisFailedPrefix \o e]

\* the responses with an error key
NoDataResponse ==
    Response(<<"No data found for this session">>,
             <<"I couldn't find any data associated with this session.">>,
             ChartNone, Absent, FALSE, 0, 0, TRUE, <<>>)

\* lines 1423-1427: the same from get_answer, which has no tasks entry
NoDataSingleResponse ==
    Response(<<"No data found for this session">>,
             <<"I couldn't find any data associated with this session.">>,
             ChartNone, Absent, FALSE, 0, 0, FALSE, <<>>)

BreakdownFailedResponse(e) ==
    Response(<<"Task breakdown failed">>,
             <<"I encountered an error while processing your request: ">> \o e,
             ChartNone, Absent, FALSE, 0, 0, TRUE, <<>>)

AnalysisFailedResponse(self, e) ==
    Response(<<"Analysis failed: ">> \o e,
             <<"I encountered an error while analyzing your data.">>,
             ChartNone, Absent, TRUE, self.api_call_count, self.total_tokens_used,
             FALSE, <<>>)

InvalidChatResponse ==
    Response(<<"Invalid chat session">>,
             <<"This chat session is no longer valid. Please start a new chat.">>,
             ChartNone, Absent, FALSE, 0, 0, FALSE, <<>>)

NoDataChatResponse ==
    Response(<<"No data found for this chat session">>,
             <<"I couldn't find any data associated with this chat session.">>,
             ChartNone, Absent, FALSE, 0, 0, FALSE, <<>>)

ChatFailedResponse(e, chat_id) ==
    [Response(<<"Chat context processing failed">>,
              <<"I encountered an error while processing your request: ">> \o e,
              ChartNone, Absent, FALSE, 0, 0, FALSE, <<>>)
     EXCEPT !.chat_id = chat_id]

\* lines 1481-1486: what get_answer returns for a parsed synthesis result
SingleResponse(self, parsed) ==
    Response(Absent, parsed.answer, parsed.chart_type, parsed.chart_data,
             TRUE, self.api_call_count, self.total_tokens_used, FALSE, <<>>)

\* _extract_data_summary(result)
extract_data_summary(result) ==
    IF Truthy(result.error) THEN <<"No data analysis available">>
    ELSE LET a == IF Truthy(result.answer)
                  THEN <<"Analysis: ">> \o SliceFirst(result.answer, 100) \o <<"...">>
                  ELSE <<>>
             c == IF result.chart_type # ChartNone
                  THEN <<"Visualization: ">> \o result.chart_type \o <<" chart">>
                  ELSE <<>>
         IN IF a # <<>> /\ c # <<>> THEN a \o <<" | ">> \o c
            ELSE IF a \o c # <<>> THEN a \o c
            ELSE <<"Basic analysis completed">>

\* msg.get("type") == type, for a dict that may have no such key
HasType(msg, type) == "type" \in DOMAIN msg /\ msg.type = type

RECURSIVE context_parts(_, _)
\* lines 1124-1129: the lines for the entries from the i-th on. An entry of the
\* history is the dict add_message_to_history built, with the keys timestamp and
\* message (chat_session_manager.py:81-84): msg.get("type") is None for it
context_parts(recent_messages, i) ==
    IF i > Len(recent_messages) THEN <<>>
    ELSE LET msg == recent_messages[i]
             part == IF HasType(msg, "user")
                     THEN <<"Previous user question: ">> \o msg.content
                     ELSE IF HasType(msg, "assistant")
                     THEN <<"Previous answer: ">> \o SliceFirst(msg.content, 100) \o <<"...">>
                     ELSE <<>>
         IN part \o (IF part # <<>> /\ i < Len(recent_messages) THEN <<NL>> ELSE <<>>)
                 \o context_parts(recent_messages, i + 1)

\* _build_contextual_query(query, conversation_history, schema_info)
build_contextual_query(query, conversation_history) ==
    IF conversation_history = <<>> THEN query
    ELSE LET parts == context_parts(SliceLast(conversation_history, 3), 1) IN
         IF parts # <<>>
         THEN <<"Based on our previous conversation:", NL>> \o parts
              \o <<NL, NL, "Current question: ">> \o query \o <<NL, NL>>
              \o <<"Please provide a response that builds on our previous discussion">>
         ELSE query

\* the messages get_answer_with_chat_context appends to the history
UserMessage(query) ==
    [type |-> "user", content |-> query, chart_type |-> Absent, chart_data |-> Absent]

AssistantMessage(result) ==
    [type |-> "assistant", content |-> result.answer, chart_type |-> result.chart_type,
     chart_data |-> IF result.chart_data = Absent THEN None ELSE result.chart_data]

\* a turn recorded with the answer before the question
chat_finish_answer_first(w, result, t) ==
    LET a == w.answer
        count == IF a.chat_id \in DOMAIN w.sessions
                 THEN w.sessions[a.chat_id].message_count + 1 ELSE 0
        final == [result EXCEPT !.chat_id = a.chat_id,
                                !.database_session_id = a.session_id,
                                !.message_count = count]
        u1 == update_chat_context(w.sessions, a.chat_id,
                                  [last_query |-> a.question, last_result |-> final,
                                   data_summary |-> extract_data_summary(result)], t)
        m1 == add_message_to_history(u1.sessions, a.chat_id, AssistantMessage(result), t)
        m2 == add_message_to_history(m1.sessions, a.chat_id, UserMessage(a.question), t)
    IN [w EXCEPT !.answer = [a EXCEPT !.pc = "returned", !.response = final],
                 !.sessions = m2.sessions,
                 !.appended = IF a.chat_id \in DOMAIN @
                              THEN [@ EXCEPT ![a.chat_id] =
                                       @ \o <<UserMessage(a.question), AssistantMessage(result)>>]
                              ELSE @]

\* lines 1074-1100 of get_answer_with_chat_context: the context update, the two
\* history entries and the chat metadata, for the result of the breakdown; w is
\* the frame with the loop, the sessions and the log
chat_finish(w, result, t) ==
    LET a == w.answer
        count == IF a.chat_id \in DOMAIN w.sessions
                 THEN w.sessions[a.chat_id].message_count + 1 ELSE 0
        final == [result EXCEPT !.chat_id = a.chat_id,
                                !.database_session_id = a.session_id,
                                !.message_count = count]
        u1 == update_chat_context(w.sessions, a.chat_id,
                                  [last_query |-> a.question, last_result |-> final,
                                   data_summary |-> extract_data_summary(result)], t)
        m1 == add_message_to_history(u1.sessions, a.chat_id, UserMessage(a.question), t)
        m2 == add_message_to_history(m1.sessions, a.chat_id, AssistantMessage(result), t)
    IN [w EXCEPT !.answer = [a EXCEPT !.pc = "returned", !.response = final],
                 !.sessions = m2.sessions,
                 !.appended = IF a.chat_id \in DOMAIN @
                              THEN [@ EXCEPT ![a.chat_id] =
                                       @ \o <<UserMessage(a.question), AssistantMessage(result)>>]
                              ELSE @]

\* get_answer_with_task_breakdown returns result: to its caller, or into
\* get_answer_with_chat_context
breakdown_return(w, result, t) ==
    IF w.answer.fn = "get_answer_with_chat_context"
    THEN chat_finish([w EXCEPT !.loop = Idle], result, t)
    ELSE [w EXCEPT !.answer = [w.answer EXCEPT !.pc = "returned", !.response = result],
                   !.loop = Idle]

\* the frame of a retry loop at its first attempt
LoopFrame(pc, fn, code) ==
    [Idle EXCEPT !.pc = pc, !.fn = fn, !.attempt = 1, !.code = code]

\* Python: not tasks
Falsy(v) == v.items = <<>>

\* lines 962-966 and 968-1013: the loop over the tasks reaches the i-th: the
\* result is combined after the last one; task['description'] at line 962 raises
\* KeyError for a dict without that key, which the handler of line 1015 answers
begin_task(self, w, i, t) ==
    LET a == w.answer IN
    IF i > Len(a.tasks)
    THEN breakdown_return(w, combine_results(self, a.results), t)
    ELSE IF \A k \in 1..Len(a.tasks[i].items) : a.tasks[i].items[k] # "description"
    THEN breakdown_return(w, BreakdownFailedResponse(<<"'description'">>), t)
    ELSE [w EXCEPT !.answer = [a EXCEPT !.pc = "generate",
                                        !.started = Append(@, a.tasks[i].task.task_id)],
                   !.loop = LoopFrame("generate", "_generate_code_with_retry", <<>>)]

\* the task in progress
CurrentTask(a) == a.tasks[Len(a.results) + 1].task

\* an Exception with text e reaches the handler of _process_single_task (line
\* 912), or that of get_answer (line 1492)
task_raised(self, w, e, t) ==
    LET a == w.answer IN
    IF a.mode = "tasks"
    THEN LET r == task_error(CurrentTask(a),
                             <<"I encountered an error while processing: ">>, e)
         IN begin_task(self, [w EXCEPT !.answer.results = Append(@, r)],
                       Len(a.results) + 2, t)
    ELSE breakdown_return(w, AnalysisFailedResponse(self, e), t)

\* lines 899-908, or 1476-1486 of get_answer: the synthesis result is parsed
task_done(self, w, synthesis_result, t) ==
    LET a == w.answer
        parsed == parse_synthesis_result(synthesis_result, a.raw_result)
    IN IF a.mode = "tasks"
       THEN begin_task(self,
                       [w EXCEPT !.answer.results =
                                     Append(@, task_result(self, CurrentTask(a), parsed))],
                       Len(a.results) + 2, t)
       ELSE breakdown_return(w, SingleResponse(self, parsed), t)

\* the call with the schema check of lines 935-945 left out
breakdown_begin_unchecked(w, query, session_id, db, t) ==
    LET a == [w.answer EXCEPT !.query = query, !.session_id = session_id,
                              !.mode = "tasks",
                              !.schema_info = IF db.raised THEN Absent ELSE db.ret]
        w1 == [w EXCEPT !.answer = a]
    IN IF db.raised THEN breakdown_return(w1, BreakdownFailedResponse(db.ret), t)
       ELSE [w1 EXCEPT !.answer.pc = "decompose"]

\* lines 928-955: get_answer_with_task_breakdown(query, session_id) up to the
\* request of the breakdown, db being what get_table_schema does
breakdown_begin(w, query, session_id, db, t) ==
    LET a == [w.answer EXCEPT !.query = query, !.session_id = session_id,
                              !.mode = "tasks",
                              !.schema_info = IF db.raised THEN Absent ELSE db.ret]
        w1 == [w EXCEPT !.answer = a]
    IN IF db.raised THEN breakdown_return(w1, BreakdownFailedResponse(db.ret), t)
       ELSE IF db.ret = <<>> THEN breakdown_return(w1, NoDataResponse, t)
       ELSE [w1 EXCEPT !.answer.pc = "decompose"]

\* lines 951-966, and 1407-1449 of get_answer: the breakdown gave the value
\* tasks; an empty one sends the query to get_answer, which fetches the schema
\* again (db)
after_breakdown(self, w, tasks, db, t) ==
    IF Falsy(tasks)
    THEN IF db.raised
         THEN breakdown_return([w EXCEPT !.answer.mode = "single"],
                               AnalysisFailedResponse(self, db.ret), t)
         ELSE IF db.ret = <<>>
         THEN breakdown_return([w EXCEPT !.answer.mode = "single"],
                               NoDataSingleResponse, t)
         ELSE [w EXCEPT !.answer.mode = "single", !.answer.pc = "generate",
                        !.loop = LoopFrame("generate", "_generate_code_with_retry", <<>>)]
    ELSE begin_task(self, [w EXCEPT !.answer.tasks = tasks.items], 1, t)

\* lines 1041-1072: get_answer_with_chat_context once the chat session is
\* found, up to the call of get_answer_with_task_breakdown; db1 is what the schema
\* lookup of line 1053 does, db2 what that of the breakdown does
chat_found(w, a, query, chat_id, db1, db2, t) ==
    LET chat_session == w.sessions[chat_id]
        context == chat_session.context
        contextual_query == build_contextual_query(query, context.conversation_history)
    IN IF Truthy(context.schema_info)
       THEN breakdown_begin([w EXCEPT !.answer = a], contextual_query,
                            chat_session.database_session_id, db2, t)
       ELSE IF db1.raised
       THEN [w EXCEPT !.answer = [a EXCEPT !.pc = "returned",
                                    !.response = ChatFailedResponse(db1.ret, chat_id)]]
       ELSE IF db1.ret = <<>>
       THEN [w EXCEPT !.answer = [a EXCEPT !.pc = "returned",
                                           !.response = NoDataChatResponse]]
       ELSE breakdown_begin(
                [w EXCEPT !.answer = a,
                          !.sessions = update_chat_context(
                                           w.sessions, chat_id,
                                           [schema_info |-> db1.ret], t).sessions],
                contextual_query, chat_session.database_session_id, db2, t)

\* the call with a session created for a chat id that has none
chat_begin_create(w, query, chat_id, db1, db2, t) ==
    LET known == IF chat_id \in DOMAIN w.sessions THEN w.sessions
                 ELSE create_chat_session(w.sessions, chat_id, "db1", t).sessions
        g == get_chat_session(known, chat_id, t)
        a == [NoAnswer EXCEPT !.fn = "get_answer_with_chat_context",
                              !.question = query, !.chat_id = chat_id]
    IN chat_found([w EXCEPT !.sessions = g.sessions], a, query, chat_id, db1, db2, t)

\* lines 1029-1039: get_answer_with_chat_context(query, chat_id)
chat_begin(w, query, chat_id, db1, db2, t) ==
    LET g == get_chat_session(w.sessions, chat_id, t)
        a == [NoAnswer EXCEPT !.fn = "get_answer_with_chat_context",
                              !.question = query, !.chat_id = chat_id]
    IN IF ~g.found
       THEN [w EXCEPT !.answer = [a EXCEPT !.pc = "returned",
                                           !.response = InvalidChatResponse],
                      !.sessions = g.sessions]
       ELSE chat_found([w EXCEPT !.sessions = g.sessions], a, query, chat_id,
                       db1, db2, t)

\* the question of the model: "show rows"
AnswerQueries == { <<"s", "h", "o", "w", WS, "r", "o", "w", "s">> }

\* the chat ids handed to get_answer_with_chat_context: those of the sessions
\* and one that has no session
AnswerChatIds == ChatIds \cup {"c0"}

\* what the provider answers to the breakdown prompt, to the generation prompt,
\* to the fix prompt and to the synthesis prompt
AnswerDecomposeProvider ==
    [responses |-> { <<"[", JsonTask1, ",", JsonTask2, "]">>, <<"[", "]">>,
                     <<"[", JsonTask1, ",", "{}", "]">> },
     errors |-> {<<"429", "RESOURCE_EXHAUSTED">>}]

AnswerGenProvider ==
    [responses |-> { <<"print('RESULT:42')">>, <<"raise ValueError('boom')">>,
                     <<"raise SystemExit('boom')">>, <<SyntaxErrorStmt>> },
     errors |-> {}]

AnswerFixProvider ==
    [responses |-> { <<"print('RESULT:42')">>, <<"raise ValueError('boom')">> },
     errors |-> {}]

AnswerSynthProvider ==
    [responses |-> { <<"Answer:", WS, "42 rows">>,
                     <<"Answer:", WS, "share", WS, Bar, WS, "Chart:", WS, "bar", WS, Bar, WS,
                       "Data:", WS, "by department">>,
                     <<WS>> },
     errors |-> {}]

\* the frame, the loop, the sessions and the log of the current state
World == [answer |-> answer, loop |-> loop, sessions |-> sessions, appended |-> appended]

\* w is what they are after the step
Becomes(w) ==
    /\ answer' = w.answer
    /\ loop' = w.loop
    /\ sessions' = w.sessions
    /\ appended' = w.appended

GetAnswerWithTaskBreakdown ==
    /\ answer.pc = "idle"
    /\ \E query \in AnswerQueries, session_id \in AnswerSessions, db_ok \in BOOLEAN :
          Becomes(breakdown_begin(
                      [World EXCEPT !.answer =
                          [NoAnswer EXCEPT !.fn = "get_answer_with_task_breakdown",
                                           !.question = query]],
                      query, session_id, get_table_schema(session_id, db_ok), now))
    /\ UNCHANGED <<ai_agent, genai_api_key, op, served, sys_stdout, streams, run, now>>

GetAnswerWithChatContext ==
    /\ answer.pc = "idle"
    /\ \E query \in AnswerQueries, chat_id \in AnswerChatIds, db_ok1, db_ok2 \in BOOLEAN :
          LET database_session_id ==
                  IF chat_id \in DOMAIN sessions
                  THEN sessions[chat_id].database_session_id ELSE ""
          IN Becomes(chat_begin(World, query, chat_id,
                                get_table_schema(database_session_id, db_ok1),
                                get_table_schema(database_session_id, db_ok2), now))
    /\ UNCHANGED <<ai_agent, genai_api_key, op, served, sys_stdout, streams, run, now>>

\* line 951: the breakdown request, and what follows it up to the next request
BreakDownStep ==
    /\ answer.pc = "decompose"
    /\ \E r \in GeminiResults(ai_agent, genai_api_key, None, AnswerDecomposeProvider),
          db_ok \in BOOLEAN :
          /\ ai_agent' = r.self
          /\ genai_api_key' = r.configured
          /\ Becomes(after_breakdown(r.self,
                                     [World EXCEPT !.answer.requests = @ + 1,
                                                   !.answer.attempts.decompose = @ + 1],
                                     break_down_query_into_tasks(answer.query, r),
                                     get_table_schema(answer.session_id, db_ok), now))
    /\ UNCHANGED <<op, served, sys_stdout, streams, run, now>>

\* line 872 (1451 in get_answer): one attempt of _generate_code_with_retry
GenerateStep ==
    /\ answer.pc = "generate"
    /\ loop.pc = "generate"
    /\ \E r \in call_llm_api(ai_agent, genai_api_key, AnswerGenProvider) :
          LET l1 == after_generation(loop, r)
              w1 == [World EXCEPT !.loop = l1, !.answer.requests = @ + 1,
                                  !.answer.attempts.generate = @ + 1]
          IN /\ ai_agent' = r.self
             /\ genai_api_key' = r.configured
             /\ Becomes(CASE l1.pc = "generate" -> w1
                          [] l1.pc = "returned" ->
                               [w1 EXCEPT !.answer.pc = "execute",
                                          !.answer.code = l1.ret,
                                          !.loop = LoopFrame("execute",
                                                             "_execute_code_with_retry",
                                                             l1.ret)]
                          [] OTHER ->
                               task_raised(r.self,
                                           [w1 EXCEPT !.answer.exhausted =
                                                         @ \cup {"generation"}],
                                           l1.ret, now))
    /\ UNCHANGED <<op, served, sys_stdout, streams, run, now>>

\* line 886 (1465): one attempt of _execute_code_with_retry; it never returns a
\* text that starts with the error marker, and an exception that is no Exception
\* passes every handler up to the caller of the top-level function
ExecuteStep ==
    /\ answer.pc = "execute"
    /\ loop.pc = "execute"
    /\ LET r == execute_code_safely(loop.code, IO)
           l1 == after_execution(loop, r)
           w1 == [World EXCEPT !.loop = l1, !.answer.executions = @ + 1]
       IN /\ sys_stdout' = r.io.stdout
          /\ streams' = r.io.streams
          /\ Becomes(CASE l1.pc = "fix" -> w1
                       [] l1.pc = "returned" ->
                            [w1 EXCEPT !.answer.pc = "synthesize",
                                       !.answer.raw_result = l1.ret,
                                       !.loop = LoopFrame("synthesize",
                                                          "_synthesize_result_with_retry",
                                                          <<>>)]
                       [] l1.pc = "failed" ->
                            task_raised(ai_agent,
                                        [w1 EXCEPT !.answer.exhausted =
                                                      @ \cup {"execution"}],
                                        l1.ret, now)
                       [] OTHER -> [w1 EXCEPT !.answer.pc = "propagated"])
    /\ UNCHANGED <<ai_agent, genai_api_key, op, served, run, now>>

\* line 463: the patch request between two attempts
FixStep ==
    /\ answer.pc = "execute"
    /\ loop.pc = "fix"
    /\ \E f \in fix_code_based_on_error(ai_agent, genai_api_key, loop.code,
                                        AnswerFixProvider) :
          /\ ai_agent' = f.self
          /\ genai_api_key' = f.configured
          /\ Becomes([World EXCEPT !.loop = after_fix(loop, f.ret),
                                   !.answer.requests = @ + 1,
                                   !.answer.attempts.patch = @ + 1])
    /\ UNCHANGED <<op, served, sys_stdout, streams, run, now>>

\* line 901 (1476): one attempt of _synthesize_result_with_retry
SynthesizeStep ==
    /\ answer.pc = "synthesize"
    /\ loop.pc = "synthesize"
    /\ \E r \in call_llm_api(ai_agent, genai_api_key, AnswerSynthProvider) :
          LET l1 == after_synthesis(loop, r)
              w1 == [World EXCEPT !.loop = l1, !.answer.requests = @ + 1,
                                  !.answer.attempts.synthesize = @ + 1]
          IN /\ ai_agent' = r.self
             /\ genai_api_key' = r.configured
             /\ Becomes(CASE l1.pc = "synthesize" -> w1
                          [] l1.pc = "returned" -> task_done(r.self, w1, l1.ret, now)
                          [] OTHER ->
                               task_raised(r.self,
                                           [w1 EXCEPT !.answer.exhausted =
                                                         @ \cup {"synthesis"}],
                                           l1.ret, now))
    /\ UNCHANGED <<op, served, sys_stdout, streams, run, now>>

\* SpecAnswer: one top-level call, on an agent as constructed, with the chat
\* session c1 of the database session db1 and the chat session c2 of db0, for
\* which no file was uploaded
InitAnswer ==
    /\ \E default_key \in {<<>>, <<WS, "kE">>} :
          /\ ai_agent = AgentInit(default_key)
          /\ genai_api_key = ai_agent.env_api_key
    /\ op = OpRec("init", None, TRUE, <<>>, <<>>, 0)
    /\ served = <<>>
    /\ sys_stdout = Console
    /\ streams = <<>>
    /\ run = [w \in Workers |-> IdleFrame]
    /\ loop = Idle
    /\ sessions = create_chat_session(create_chat_session(<<>>, "c1", "db1", 0).sessions,
                                      "c2", "db0", 0).sessions
    /\ now = 1
    /\ appended = ("c1" :> <<>>) @@ ("c2" :> <<>>)
    /\ answer = NoAnswer

NextAnswer ==
    \/ GetAnswerWithTaskBreakdown
    \/ GetAnswerWithChatContext
    \/ BreakDownStep
    \/ GenerateStep
    \/ ExecuteStep
    \/ FixStep
    \/ SynthesizeStep

SpecAnswer == InitAnswer /\ [][NextAnswer]_vars

\* the turns a chat session has completed before the call, at most
MaxTurns == 1

\* the question and the result of the i-th earlier turn
EarlierQuestion(i) == <<"question ", ToString(i)>>
EarlierResult(i) ==
    Response(Absent, <<"answer ", ToString(i)>>, ChartNone, Absent, TRUE, i, 0, TRUE, <<>>)

\* lines 1041-1103 for a turn whose breakdown returned result: the lookup, the
\* schema cached at the first turn, the context update and the two messages
CompletedTurn(w, chat_id, question, result, t) ==
    LET g == get_chat_session(w.sessions, chat_id, t).sessions
        database_session_id == g[chat_id].database_session_id
        cached == IF Truthy(g[chat_id].context.schema_info) THEN g
                  ELSE update_chat_context(
                           g, chat_id,
                           [schema_info |-> get_table_schema(database_session_id, TRUE).ret],
                           t).sessions
        a == [NoAnswer EXCEPT !.fn = "get_answer_with_chat_context", !.question = question,
                              !.chat_id = chat_id, !.session_id = database_session_id]
    IN chat_finish([w EXCEPT !.answer = a, !.sessions = cached], result, t)

RECURSIVE EarlierTurns(_, _)
\* the sessions of InitAnswer after k turns of the chat session chat_id
EarlierTurns(chat_id, k) ==
    IF k = 0
    THEN [answer |-> NoAnswer, loop |-> Idle,
          sessions |-> create_chat_session(create_chat_session(<<>>, "c1", "db1", 0).sessions,
                                           "c2", "db0", 0).sessions,
          appended |-> ("c1" :> <<>>) @@ ("c2" :> <<>>)]
    ELSE CompletedTurn(EarlierTurns(chat_id, k - 1), chat_id, EarlierQuestion(k),
                       EarlierResult(k), 0)

\* SpecTurns: a call of get_answer_with_chat_context for a chat session that has
\* completed 0..MaxTurns turns, or as many as fill the history
InitTurns ==
    /\ ai_agent = AgentInit(<<WS, "kE">>)
    /\ genai_api_key = ai_agent.env_api_key
    /\ op = OpRec("init", None, TRUE, <<>>, <<>>, 0)
    /\ served = <<>>
    /\ sys_stdout = Console
    /\ streams = <<>>
    /\ run = [w \in Workers |-> IdleFrame]
    /\ loop = Idle
    /\ now = 1
    /\ answer = NoAnswer
    /\ \E k \in (0..MaxTurns) \cup {history_limit \div 2} :
          LET w == EarlierTurns("c1", k) IN
          /\ sessions = w.sessions
          /\ appended = w.appended

NextTurns ==
    \/ GetAnswerWithChatContext
    \/ BreakDownStep
    \/ GenerateStep
    \/ ExecuteStep
    \/ FixStep
    \/ SynthesizeStep

SpecTurns == InitTurns /\ [][NextTurns]_vars

\* SpecSynthesize: lines 1480-1495 of get_answer for every synthesis text and
\* every raw output below: the synthesis loop has returned loop.ret for the raw
\* output answer.raw_result, and _parse_synthesis_result makes the response of it

MaxPhrases == 2

\* the lines a generated script prints
Phrases ==
    { <<"Engineering", ":", WS, "5">>,
      <<"Sales", ":", WS, "4">>,
      <<"RESULT:42">>,
      <<"Engineering", WS, "has", WS, "5", WS, "employees">>,
      <<"Engineering", WS, "has", WS, "employees", WS, "in", WS, "2", WS, "unique", WS,
        "cities">>,
      <<"Engineering", WS, "department", WS, "has", WS, "the", WS, "most", WS, "employees",
        WS, "from", WS, "Seattle">>,
      <<"$55,000">>,
      <<"$,">>,
      <<"total", WS, "07">>,
      <<"42">>,
      <<"no rows">> }

\* what stands between two of them
Joiners == { <<",", WS>>, <<NL>> }

RECURSIVE Joined(_, _)
\* Python: sep.join(parts)
Joined(parts, sep) ==
    IF Len(parts) = 0 THEN <<>>
    ELSE IF Len(parts) = 1 THEN parts[1]
    ELSE parts[1] \o sep \o Joined(Tail(parts), sep)

SynthesizeRawOutputs ==
    UNION { { Joined(parts, sep) : parts \in [1..n -> Phrases], sep \in Joiners } :
            n \in 1..MaxPhrases }

\* the synthesis text that suggests the chart kind
ChartSuggestion(kind) ==
    <<"Answer:", WS, "X", WS, Bar, WS, "Chart:", WS, kind, WS, Bar, WS, "Data:", WS,
      "by department">>

SynthesizeTexts ==
    { ChartSuggestion(kind) :
        kind \in {"bar", "pie", "Pie", "line", "scatter", "none", "histogram"} }
    \cup { <<"Answer:", WS, "42 rows">> }

ParseSynthesisResult ==
    /\ answer.pc = "synthesized"
    /\ answer' = [answer EXCEPT
                    !.pc = "returned",
                    !.response = SingleResponse(ai_agent,
                                     parse_synthesis_result(loop.ret, answer.raw_result))]
    /\ UNCHANGED <<ai_agent, genai_api_key, op, served, sys_stdout, streams, run, loop,
                   sessions, now, appended>>

InitSynthesize ==
    /\ ai_agent = AgentInit(<<"kE">>)
    /\ genai_api_key = ai_agent.env_api_key
    /\ op = OpRec("init", None, TRUE, <<>>, <<>>, 0)
    /\ served = <<>>
    /\ sys_stdout = Console
    /\ streams = <<>>
    /\ run = [w \in Workers |-> IdleFrame]
    /\ sessions = <<>>
    /\ now = 0
    /\ appended = <<>>
    /\ \E synthesis_result \in SynthesizeTexts, raw_result \in SynthesizeRawOutputs :
          /\ loop = [LoopFrame("returned", "_synthesize_result_with_retry", <<>>)
                       EXCEPT !.ret = synthesis_result]
          /\ answer = [NoAnswer EXCEPT !.pc = "synthesized", !.fn = "get_answer",
                                       !.mode = "single", !.raw_result = raw_result]

NextSynthesize == ParseSynthesisResult

SpecSynthesize == InitSynthesize /\ [][NextSynthesize]_vars

-----------------------------------------------------------------------------
(* One operation of the single worker per step.  op records the operation the   *)
(* last step performed, its argument and what it returned.                        *)

\* served keeps the newest ServedWindow keys returned by GetNextApiKey steps since
\* the pool last changed
ServedWindow == Cardinality(Secrets) + 1

Serve(sv, key) ==
    LET a == Append(sv, key) IN
    IF Len(a) > ServedWindow THEN Tail(a) ELSE a

PoolKeys(self) == {self.gemini_api_keys[i] : i \in 1..Len(self.gemini_api_keys)}

AddGeminiApiKey ==
    \E raw \in RawSecrets, probe_ok \in BOOLEAN :
        LET r == add_gemini_api_key(ai_agent, genai_api_key, raw, probe_ok) IN
        /\ ai_agent' = r.self
        /\ genai_api_key' = r.configured
        /\ op' = OpRec("add_gemini_api_key", Strip(raw), r.ret, <<>>, <<>>, 0)
        /\ served' = IF r.ret THEN <<>> ELSE served
        /\ UNCHANGED <<sys_stdout, streams, run, loop, sessions, now, appended, answer>>

EnsureEnvApiKeyAvailable ==
    LET r == ensure_env_api_key_available(ai_agent) IN
    /\ ai_agent' = r.self
    /\ op' = OpRec("ensure_env_api_key_available", None, r.ret, <<>>, <<>>, 0)
    /\ served' = IF r.self.gemini_api_keys # ai_agent.gemini_api_keys THEN <<>> ELSE served
    /\ UNCHANGED <<genai_api_key, sys_stdout, streams, run, loop, sessions, now, appended,
                   answer>>

GetNextApiKey ==
    LET r == get_next_api_key(ai_agent) IN
    /\ ai_agent' = r.self
    /\ op' = OpRec("get_next_api_key", None, ~r.raised, r.ret, <<>>, 0)
    /\ served' = IF r.raised THEN served ELSE Serve(served, r.ret)
    /\ UNCHANGED <<genai_api_key, sys_stdout, streams, run, loop, sessions, now, appended,
                   answer>>

SwitchToFallbackModel ==
    LET r == switch_to_fallback_model(ai_agent) IN
    /\ ai_agent' = r.self
    /\ op' = OpRec("_switch_to_fallback_model", None, r.ret, <<>>, <<>>, 0)
    /\ UNCHANGED <<genai_api_key, served, sys_stdout, streams, run, loop, sessions, now, appended,
                   answer>>

ResetToPrimaryModel ==
    /\ ai_agent' = reset_to_primary_model(ai_agent)
    /\ op' = OpRec("reset_to_primary_model", None, TRUE, <<>>, <<>>, 0)
    /\ UNCHANGED <<genai_api_key, served, sys_stdout, streams, run, loop, sessions, now, appended,
                   answer>>

ResetCreditTracking ==
    /\ ai_agent' = reset_credit_tracking(ai_agent)
    /\ op' = OpRec("reset_credit_tracking", None, TRUE, <<>>, <<>>, 0)
    /\ UNCHANGED <<genai_api_key, served, sys_stdout, streams, run, loop, sessions, now, appended,
                   answer>>

\* what the provider does with the requests made in Spec: it answers with a plain
\* or a fenced text, or fails with a limit error or with an error naming the key
GwProvider ==
    [responses |-> {<<"fine">>, <<FencePy, "code", WS, Fence>>},
     errors |-> {<<"429", "RESOURCE_EXHAUSTED">>, <<"400">> \o KeySlot \o <<"rejected">>}]

\* _call_gemini_api with a pooled key (as _call_llm_api calls it) or with none (as
\* _fix_code_based_on_error and _break_down_query_into_tasks call it)
CallGeminiApi ==
    /\ ai_agent.api_call_count < MaxCalls
    /\ \E key_arg \in PoolKeys(ai_agent) \cup {None} :
       \E r \in GeminiResults(ai_agent, genai_api_key, key_arg, GwProvider) :
        /\ ai_agent' = r.self
        /\ genai_api_key' = r.configured
        /\ op' = OpRec("_call_gemini_api", key_arg, ~r.raised, r.ret, r.reqs, r.demotions)
    /\ UNCHANGED <<served, sys_stdout, streams, run, loop, sessions, now, appended, answer>>

CallLlmApi ==
    /\ ai_agent.api_call_count < MaxCalls
    /\ \E r \in call_llm_api(ai_agent, genai_api_key, GwProvider) :
        /\ ai_agent' = r.self
        /\ genai_api_key' = r.configured
        /\ op' = OpRec("_call_llm_api", None, ~r.raised, r.ret, r.reqs, r.demotions)
    /\ UNCHANGED <<served, sys_stdout, streams, run, loop, sessions, now, appended, answer>>

-----------------------------------------------------------------------------
(* SpecPool: the credential pool from construction on: registration, the        *)
(* fallback re-insertion and the round-robin selection                            *)

InitPool ==
    /\ \E default_key \in EnvSettings : ai_agent = AgentInit(default_key)
    /\ genai_api_key = ai_agent.env_api_key
    /\ op = OpRec("init", None, TRUE, <<>>, <<>>, 0)
    /\ served = <<>>
    /\ sys_stdout = Console
    /\ streams = <<>>
    /\ run = [w \in Workers |-> IdleFrame]
    /\ loop = Idle
    /\ sessions = <<>>
    /\ now = 0
    /\ appended = <<>>
    /\ answer = NoAnswer

NextPool ==
    \/ AddGeminiApiKey
    \/ EnsureEnvApiKeyAvailable
    \/ GetNextApiKey
    \/ ResetToPrimaryModel
    \/ ResetCreditTracking

SpecPool == InitPool /\ [][NextPool]_vars

-----------------------------------------------------------------------------
(* Spec: the inference gateway and the model tier over a pool that construction *)
(* and registrations have filled                                                  *)

RECURSIVE Registered(_, _)
\* the agent after the successful registrations of the raw secrets raws, in order
Registered(self, raws) ==
    IF raws = <<>> THEN self
    ELSE Registered(add_gemini_api_key(self, None, Head(raws), TRUE).self, Tail(raws))

Registrations == {<<>>, <<<<"kA">>>>, <<<<"kA">>, <<"kB", WS>>>>}

Init ==
    /\ \E default_key \in EnvSettings, raws \in Registrations :
          /\ ai_agent = Registered(AgentInit(default_key), raws)
          /\ genai_api_key = IF raws = <<>> THEN ai_agent.env_api_key
                             ELSE Strip(raws[Len(raws)])
    /\ op = OpRec("init", None, TRUE, <<>>, <<>>, 0)
    /\ served = <<>>
    /\ sys_stdout = Console
    /\ streams = <<>>
    /\ run = [w \in Workers |-> IdleFrame]
    /\ loop = Idle
    /\ sessions = <<>>
    /\ now = 0
    /\ appended = <<>>
    /\ answer = NoAnswer

Next ==
    \/ CallGeminiApi
    \/ CallLlmApi
    \/ SwitchToFallbackModel
    \/ ResetToPrimaryModel
    \/ ResetCreditTracking

Spec == Init /\ [][Next]_vars

\* SpecGateway: the calls of _call_gemini_api alone, over the same pools and tiers
NextGateway ==
    \/ CallGeminiApi
    \/ SwitchToFallbackModel
    \/ ResetToPrimaryModel
    \/ ResetCreditTracking

SpecGateway == Init /\ [][NextGateway]_vars

RECURSIVE Selected(_, _)
\* the agent after k selections of get_next_api_key
Selected(self, k) ==
    IF k = 0 \/ self.gemini_api_keys = <<>> THEN self
    ELSE Selected(get_next_api_key(self).self, k - 1)

\* SpecFailover: the calls of _call_llm_api alone, over the same pools after 0 to
\* 2 selections of the rotation, with switches and resets of the tier in between
InitFailover ==
    /\ \E default_key \in EnvSettings, raws \in Registrations, k \in 0..2 :
          /\ ai_agent = Selected(Registered(AgentInit(default_key), raws), k)
          /\ genai_api_key = IF raws = <<>> THEN ai_agent.env_api_key
                             ELSE Strip(raws[Len(raws)])
    /\ op = OpRec("init", None, TRUE, <<>>, <<>>, 0)
    /\ served = <<>>
    /\ sys_stdout = Console
    /\ streams = <<>>
    /\ run = [w \in Workers |-> IdleFrame]
    /\ loop = Idle
    /\ sessions = <<>>
    /\ now = 0
    /\ appended = <<>>
    /\ answer = NoAnswer

NextFailover ==
    \/ CallLlmApi
    \/ SwitchToFallbackModel
    \/ ResetToPrimaryModel

SpecFailover == InitFailover /\ [][NextFailover]_vars

-----------------------------------------------------------------------------
(* SpecConcurrent: queries of several clients at the endpoints /query and       *)
(* /chat/query (backend/app/api/endpoints.py). Each request is a coroutine of   *)
(* the event loop; its handler calls the agent, and the agent an inference call *)
(* without a credential, statement by statement: run is the frame of each       *)
(* request, with the value a statement has read and not yet stored              *)

QueryWorkers == {1, 2}

\* the requests one client sends
MaxQueries == 2

QueryFrame ==
    [pc |-> "idle", api_key |-> None, read |-> 0, queries |-> 0, nexts |-> 0, calls |-> 0]

\* the scheduler that lets a handler run while another one is inside the agent
AnyWorkerRuns(w) == TRUE

\* endpoints.py:86 and 211: the handlers are coroutines (async def) that call
\* the agent directly (lines 114 and 221), with no await between their first
\* and their last statement: the event loop runs the handler of w only when no
\* other handler is inside its body, and then to its end
EventLoopRuns(w) == \A v \in QueryWorkers \ {w} : run[v].pc \in {"idle", "pending"}

\* a request arrives: its coroutine is scheduled
QueryArrives(w) ==
    /\ run[w].pc = "idle"
    /\ run[w].queries < MaxQueries
    /\ run' = [run EXCEPT ![w].pc = "pending", ![w].queries = @ + 1]
    /\ UNCHANGED <<ai_agent, genai_api_key, op, served, sys_stdout, streams, loop, sessions,
                   now, appended, answer>>

\* lines 127-131: the handler starts and get_next_api_key reads the key at the index
SelectKey(w) ==
    /\ run[w].pc = "pending"
    /\ EventLoopRuns(w)
    /\ IF ai_agent.gemini_api_keys = <<>>
       THEN run' = [run EXCEPT ![w].pc = "idle"]
       ELSE run' = [run EXCEPT ![w].pc = "advance",
                               ![w].api_key =
                                   ai_agent.gemini_api_keys[ai_agent.current_api_index + 1]]
    /\ UNCHANGED <<ai_agent, genai_api_key, op, served, sys_stdout, streams, loop, sessions,
                   now, appended, answer>>

\* line 132, the right-hand side: the index is read and the next one computed
ReadIndex(w) ==
    /\ run[w].pc = "advance"
    /\ EventLoopRuns(w)
    /\ run' = [run EXCEPT ![w].pc = "store_index",
                          ![w].read = (ai_agent.current_api_index + 1)
                                         % Len(ai_agent.gemini_api_keys)]
    /\ UNCHANGED <<ai_agent, genai_api_key, op, served, sys_stdout, streams, loop, sessions,
                   now, appended, answer>>

\* line 132, the assignment; get_next_api_key returns
StoreIndex(w) ==
    /\ run[w].pc = "store_index"
    /\ EventLoopRuns(w)
    /\ ai_agent' = [ai_agent EXCEPT !.current_api_index = run[w].read]
    /\ run' = [run EXCEPT ![w].pc = "request", ![w].nexts = @ + 1]
    /\ UNCHANGED <<genai_api_key, op, served, sys_stdout, streams, loop, sessions,
                   now, appended, answer>>

\* lines 151-163: the request is answered and api_call_count is read for the
\* increment, or the request fails with an error that is not a limit error and
\* the call raises (line 246)
ProviderRequest(w) ==
    /\ run[w].pc = "request"
    /\ EventLoopRuns(w)
    /\ genai_api_key' = run[w].api_key
    /\ \E ok \in BOOLEAN :
          run' = IF ok
                 THEN [run EXCEPT ![w].pc = "store_count", ![w].read = ai_agent.api_call_count]
                 ELSE [run EXCEPT ![w].pc = "idle"]
    /\ UNCHANGED <<ai_agent, op, served, sys_stdout, streams, loop, sessions,
                   now, appended, answer>>

\* line 163, the assignment, and line 164, the read of calls_made
StoreCallCount(w) ==
    /\ run[w].pc = "store_count"
    /\ EventLoopRuns(w)
    /\ ai_agent' = [ai_agent EXCEPT !.api_call_count = run[w].read + 1]
    /\ run' = [run EXCEPT ![w].pc = "store_calls_made",
                          ![w].read = ai_agent.api_key_usage[run[w].api_key].calls_made]
    /\ UNCHANGED <<genai_api_key, op, served, sys_stdout, streams, loop, sessions,
                   now, appended, answer>>

\* line 164, the assignment, line 165 and the return of the call and of the handler
StoreCallsMade(w) ==
    /\ run[w].pc = "store_calls_made"
    /\ EventLoopRuns(w)
    /\ ai_agent' = [ai_agent EXCEPT
                       !.api_key_usage[run[w].api_key].calls_made = run[w].read + 1,
                       !.api_key_usage[run[w].api_key].last_used = Now]
    /\ run' = [run EXCEPT ![w].pc = "idle", ![w].calls = @ + 1]
    /\ UNCHANGED <<genai_api_key, op, served, sys_stdout, streams, loop, sessions,
                   now, appended, answer>>

InitConcurrent ==
    /\ \E raws \in Registrations :
          /\ ai_agent = Registered(AgentInit(<<WS, "kE">>), raws)
          /\ genai_api_key = IF raws = <<>> THEN ai_agent.env_api_key
                             ELSE Strip(raws[Len(raws)])
    /\ op = OpRec("init", None, TRUE, <<>>, <<>>, 0)
    /\ served = <<>>
    /\ sys_stdout = Console
    /\ streams = <<>>
    /\ run = [w \in QueryWorkers |-> QueryFrame]
    /\ loop = Idle
    /\ sessions = <<>>
    /\ now = 0
    /\ appended = <<>>
    /\ answer = NoAnswer

NextConcurrent ==
    \E w \in QueryWorkers :
        \/ QueryArrives(w)
        \/ SelectKey(w)
        \/ ReadIndex(w)
        \/ StoreIndex(w)
        \/ ProviderRequest(w)
        \/ StoreCallCount(w)
        \/ StoreCallsMade(w)

SpecConcurrent == InitConcurrent /\ [][NextConcurrent]_vars

\* SpecInference: the pool operations together with the inference requests of
\* the four callers

\* the callers that issue inference requests: generation (line 410) and synthesis
\* (529) go through _call_llm_api, repair (499) and decomposition (782) call
\* _call_gemini_api without a key
LlmCallers == {"_generate_code_with_retry", "_synthesize_result_with_retry"}
GeminiCallers == {"_fix_code_based_on_error", "_break_down_query_into_tasks"}

\* what the provider does with the requests of SpecInference: it answers, or
\* fails with a limit error or with another error
InferenceProvider ==
    [responses |-> {<<"fine">>},
     errors |-> {<<"429", "RESOURCE_EXHAUSTED">>, <<"500">>}]

\* the keys the provider requests reqs were made with, in order
RequestKeys(reqs) == [i \in 1..Len(reqs) |-> reqs[i].key]

\* one inference call of a caller; op keeps the keys of the provider requests it
\* issued
InferenceRequest ==
    /\ ai_agent.api_call_count < MaxInferenceCalls
    /\ \E caller \in LlmCallers \cup GeminiCallers :
       \E r \in IF caller \in LlmCallers
                THEN call_llm_api(ai_agent, genai_api_key, InferenceProvider)
                ELSE GeminiResults(ai_agent, genai_api_key, None, InferenceProvider) :
        /\ ai_agent' = r.self
        /\ genai_api_key' = r.configured
        /\ op' = OpRec(caller, None, ~r.raised, r.ret, RequestKeys(r.reqs), r.demotions)
    /\ UNCHANGED <<served, sys_stdout, streams, run, loop, sessions, now, appended, answer>>

\* the agent as constructed, or after one registration
InitInference ==
    /\ \E default_key \in EnvSettings, raws \in {<<>>, <<<<"kA">>>>} :
          /\ ai_agent = Registered(AgentInit(default_key), raws)
          /\ genai_api_key = IF raws = <<>> THEN ai_agent.env_api_key
                             ELSE Strip(raws[Len(raws)])
    /\ op = OpRec("init", None, TRUE, <<>>, <<>>, 0)
    /\ served = <<>>
    /\ sys_stdout = Console
    /\ streams = <<>>
    /\ run = [w \in Workers |-> IdleFrame]
    /\ loop = Idle
    /\ sessions = <<>>
    /\ now = 0
    /\ appended = <<>>
    /\ answer = NoAnswer

NextInference ==
    \/ EnsureEnvApiKeyAvailable
    \/ GetNextApiKey
    \/ InferenceRequest

SpecInference == InitInference /\ [][NextInference]_vars

\* SpecLoop: code generation and the execute-and-repair loop, one operation at
\* a time, over the pools of Init
NextLoop ==
    \/ GenerateStart
    \/ GenerateAttempt
    \/ ExecuteStart
    \/ ExecuteAttempt
    \/ FixCode

SpecLoop == Init /\ [][NextLoop]_vars

\* SpecDecompose: the decomposition of a question and the keyword fallback
NextDecompose ==
    \/ BreakDownQueryIntoTasks
    \/ FallbackTaskBreakdown

\* the agent as constructed, with or without the environment key
InitDecompose ==
    /\ \E default_key \in EnvSettings :
          /\ ai_agent = AgentInit(default_key)
          /\ genai_api_key = ai_agent.env_api_key
    /\ op = OpRec("init", None, TRUE, <<>>, <<>>, 0)
    /\ served = <<>>
    /\ sys_stdout = Console
    /\ streams = <<>>
    /\ run = [w \in Workers |-> IdleFrame]
    /\ loop = Idle
    /\ sessions = <<>>
    /\ now = 0
    /\ appended = <<>>
    /\ answer = NoAnswer

SpecDecompose == InitDecompose /\ [][NextDecompose]_vars

-----------------------------------------------------------------------------
(* Claims about the credential pool, the model tier and the inference gateway *)

\* C1: with n >= 1 pooled credentials and no registration in between, any n
\* consecutive get_next_api_key calls return n different pooled credentials (so
\* each exactly once), and the call after them returns the first of them again.
C1_RoundRobin ==
    LET n == Len(ai_agent.gemini_api_keys) IN
    \A i, j \in 1..Len(served) :
        /\ served[i] \in PoolKeys(ai_agent)
        /\ (i < j /\ j - i < n) => served[i] # served[j]
        /\ (j - i = n) => served[i] = served[j]

\* a pool of three credentials has served a full round and wrapped to the first
C1_Witness ==
    /\ Len(ai_agent.gemini_api_keys) = 3
    /\ Len(served) = 4
    /\ op.name = "get_next_api_key"

\* C2: the tier is one value of the agent: _switch_to_fallback_model moves it one
\* rank down and returns True, at the last rank it returns False and leaves it;
\* no step moves the tier toward primary except reset_to_primary_model, which
\* sets it to primary; every provider request, whichever key it uses, is made
\* with the tier current at that moment.
C2_TierDemotion ==
    [][ LET tier == ai_agent.current_model_name
            tier2 == ai_agent'.current_model_name
        IN
        /\ op'.name = "_switch_to_fallback_model" =>
              IF tier = tertiary_model_name
              THEN ~op'.ok /\ tier2 = tier
              ELSE op'.ok /\ TierRank(tier2) = TierRank(tier) + 1
        /\ TierRank(tier2) < TierRank(tier) => op'.name = "reset_to_primary_model"
        /\ op'.name = "reset_to_primary_model" => tier2 = primary_model_name
        /\ Len(op'.reqs) >= 1 => op'.reqs[1].model = tier
        /\ Len(op'.reqs) >= 2 => op'.reqs[2].model = tier2
      ]_vars

\* a demotion was asked for at the last rank and refused
C2_Witness ==
    /\ op.name = "_switch_to_fallback_model"
    /\ ~op.ok
    /\ ai_agent.current_model_name = tertiary_model_name

\* the key a _call_gemini_api step uses: the one given, else the next of the pool
CallKey(self, key_arg) ==
    IF key_arg # None THEN key_arg ELSE self.gemini_api_keys[self.current_api_index + 1]

\* C3: a _call_gemini_api at tier primary or secondary whose first provider
\* request fails with a limit-classified error and whose retry is answered:
\* the tier is demoted exactly once, exactly two provider requests are issued,
\* both with the same credential, the retry's payload is returned with no error,
\* and that credential's usage counters are incremented exactly once.
C3_RetryAfterLimitError ==
    [][ ( /\ op'.name = "_call_gemini_api"
          /\ ai_agent.current_model_name # tertiary_model_name
          /\ Len(op'.reqs) >= 1
          /\ ~op'.reqs[1].ok
          /\ is_model_limit_error(Sanitize(op'.reqs[1].text, op'.reqs[1].key))
          /\ Len(op'.reqs) >= 2 => op'.reqs[2].ok )
        =>
        LET key == CallKey(ai_agent, op'.key_arg) IN
        /\ TierRank(ai_agent'.current_model_name) = TierRank(ai_agent.current_model_name) + 1
        /\ op'.demotions = 1
        /\ Len(op'.reqs) = 2
        /\ op'.reqs[1].key = key
        /\ op'.reqs[2].key = key
        /\ op'.ok
        /\ op'.ret = ExtractCode(op'.reqs[2].text)
        /\ ai_agent'.api_call_count = ai_agent.api_call_count + 1
        /\ ai_agent'.api_key_usage[key].calls_made = ai_agent.api_key_usage[key].calls_made + 1
        /\ ai_agent'.api_key_usage[key].last_used = Now
        /\ \A k \in DOMAIN ai_agent.api_key_usage \ {key} :
              ai_agent'.api_key_usage[k] = ai_agent.api_key_usage[k]
      ]_vars

\* a call returned the payload of its retry after one demotion
C3_Witness ==
    /\ op.name = "_call_gemini_api"
    /\ op.ok
    /\ Len(op.reqs) = 2
    /\ op.demotions = 1
    /\ ~op.reqs[1].ok
    /\ op.ret = <<"code">>

\* C4: execute_code_safely never propagates: whenever the script raised an
\* exception, of any class a script can raise in the sandbox, the call returns a
\* text that starts with the error marker and no exception reaches the caller.
C4_NeverPropagates ==
    \A w \in Workers :
        (run[w].pc = "done" /\ run[w].exc # "")
            => /\ run[w].outcome = "return"
               /\ StartsWith(run[w].value, ErrorMarker)

\* C5: in a single-worker run, when execute_code_safely returns or is left by an
\* exception, whether the script succeeded or raised, sys.stdout is the stream
\* that was installed immediately before the call, and it stays that stream when
\* the caller takes over.
C5_StdoutRestored ==
    [][\A w \in Workers :
          /\ run'[w].pc = "done" => sys_stdout' = run'[w].old_stdout
          /\ (run[w].pc = "done" /\ run'[w].pc = "idle") => sys_stdout' = run[w].old_stdout
          /\ (run[w].pc = "idle" /\ run'[w].pc # "idle") => run'[w].old_stdout = sys_stdout
      ]_vars

C5_Witness ==
    \E w \in Workers :
        /\ run[w].pc = "done"
        /\ run[w].outcome = "raise"
        /\ run[w].code = <<"import sys; sys.stdout = sys.stderr", "raise SystemExit('boom')">>
        /\ run[w].old_stdout = Console
        /\ sys_stdout = Console

\* the executor result carries the error marker
CarriesMarker(x) == x.outcome = "return" /\ StartsWith(x.value, ErrorMarker)

\* the script runs to its end and its output does not carry the error marker
ExecutesSuccessfully(code) ==
    LET r == execute_code_safely(code, IO) IN
    r.outcome = "return" /\ ~StartsWith(r.value, ErrorMarker)

\* C6: _execute_code_with_retry started at attempt 1 with a script whose first
\* execution fails, when the patch request returns a different script that
\* executes successfully, completes with exactly 2 executor invocations and
\* exactly 1 patch request and returns the output of the patched script.
C6_RepairOnce ==
    (/\ loop.fn = "_execute_code_with_retry"
     /\ Len(loop.execs) >= 1
     /\ CarriesMarker(loop.execs[1])
     /\ Len(loop.patches) >= 1
     /\ loop.patches[1].fixed_code # loop.execs[1].code
     /\ ExecutesSuccessfully(loop.patches[1].fixed_code))
    => /\ Len(loop.patches) = 1
       /\ Len(loop.execs) <= 2
       /\ loop.pc \in {"execute", "returned"}
       /\ loop.pc = "execute" <=> Len(loop.execs) = 1
       /\ loop.pc = "returned" =>
             /\ loop.execs[2].code = loop.patches[1].fixed_code
             /\ loop.ret = loop.execs[2].value
             /\ loop.ret = execute_code_safely(loop.patches[1].fixed_code, IO).value

C6_Witness ==
    /\ loop.fn = "_execute_code_with_retry"
    /\ loop.pc = "returned"
    /\ Len(loop.execs) = 2
    /\ Len(loop.patches) = 1
    /\ CarriesMarker(loop.execs[1])
    /\ loop.patches[1].fixed_code # loop.execs[1].code
    /\ loop.ret = <<"RESULT:42">>

\* C7: _execute_code_with_retry with ceiling 3: when every execution carries the
\* error marker the executor is invoked exactly 3 times, the patch request is
\* made exactly 2 times (on the attempts below the ceiling only), and the call
\* then raises the execution-failed error with the error text of the third
\* execution; there is never a fourth execution.
C7_RepairExhausted ==
    loop.fn = "_execute_code_with_retry" =>
        /\ Len(loop.execs) <= 3
        /\ (\A i \in 1..Len(loop.execs) : CarriesMarker(loop.execs[i])) =>
              /\ Len(loop.patches) <= 2
              /\ loop.pc = "fix" => Len(loop.patches) = Len(loop.execs) - 1 /\ Len(loop.execs) < 3
              /\ loop.pc = "execute" => Len(loop.patches) = Len(loop.execs)
              /\ loop.pc \in Terminal =>
                    /\ loop.pc = "failed"
                    /\ Len(loop.execs) = 3
                    /\ Len(loop.patches) = 2
                    /\ loop.ret = <<"Code execution failed after", "3", "attempts:">>
                                      \o loop.execs[3].value

C7_Witness ==
    /\ loop.fn = "_execute_code_with_retry"
    /\ loop.pc = "failed"
    /\ Len(loop.execs) = 3
    /\ Len(loop.patches) = 2
    /\ loop.patches[1].fixed_code # loop.patches[1].code
    /\ loop.execs[3].value = ErrorMarker \o <<": ", "division by zero">>

\* the inference call of a generation attempt gave nothing usable: it raised,
\* its text is empty or blank, or its text does not parse
AttemptFailed(c) == c.raised \/ Strip(c.ret) = <<>> \/ ~Compiles(c.ret)

HasNotice(prompt) == Contains(prompt, <<"IMPORTANT: This is attempt #">>)

\* C8: _generate_code_with_retry with ceiling 2: every script it returns is
\* non-empty and parses; an empty output, a parse failure or an inference failure
\* on attempt 1 leads to exactly one further attempt whose prompt carries the
\* previous-attempts-failed notice; there are at most 2 inference calls, and when
\* attempt 2 fails too the code-generation-failed error is raised and no script
\* is returned.
C8_GenerateBounded ==
    loop.fn = "_generate_code_with_retry" =>
        LET n == Len(loop.calls) IN
        /\ n <= 2
        /\ loop.pc = "returned" =>
              /\ loop.ret # <<>> /\ Strip(loop.ret) # <<>>
              /\ Compiles(loop.ret)
              /\ loop.ret = loop.calls[n].ret
        /\ n >= 1 => ~HasNotice(loop.calls[1].prompt)
        /\ (n >= 1 /\ ~AttemptFailed(loop.calls[1])) => n = 1 /\ loop.pc = "returned"
        /\ (n >= 1 /\ AttemptFailed(loop.calls[1])) =>
              /\ loop.pc \in Terminal => n = 2
              /\ n = 1 => loop.pc = "generate" /\ loop.attempt = 2
              /\ n = 2 => HasNotice(loop.calls[2].prompt)
        /\ (n = 2 /\ AttemptFailed(loop.calls[2])) =>
              /\ loop.pc = "failed"
              /\ StartsWith(loop.ret, <<"Code generation failed after", "2", "attempts:">>)
        /\ loop.pc = "failed" => n = 2 /\ AttemptFailed(loop.calls[2])

C8_Witness ==
    /\ loop.fn = "_generate_code_with_retry"
    /\ loop.pc = "failed"
    /\ Len(loop.calls) = 2
    /\ loop.calls[1].ret = <<SyntaxErrorStmt>>
    /\ ~loop.calls[2].raised /\ loop.calls[2].ret = <<NL>>

\* C9: _break_down_query_into_tasks never returns an empty list, whatever the
\* question and whatever the model answered (a JSON list, an empty JSON list, JSON
\* that is no list, text that is no JSON, empty text) or when the call failed.
C9_NeverEmptyList ==
    (loop.fn = "_break_down_query_into_tasks" /\ loop.pc = "returned")
        => ~(loop.ret.type = "list" /\ loop.ret.items = <<>>)

\* no keyword of the four rules occurs in the lower-cased question
NoRuleMatches(query) == \A kw \in FallbackKeywords : ~Contains(Lower(query), kw)

\* C10: _fallback_task_breakdown always yields at least one subtask; when no
\* keyword rule matches the question it yields exactly one subtask, whose question
\* is the original question and whose chart kind is none; in every result the
\* subtasks are numbered task_1..task_k and the priority of each is its position.
C10_FallbackBreakdown ==
    (loop.fn = "_fallback_task_breakdown" /\ loop.pc = "returned") =>
        LET tasks == loop.ret.items IN
        /\ loop.ret.type = "list"
        /\ Len(tasks) >= 1
        /\ \A i \in 1..Len(tasks) :
              /\ tasks[i].type = "dict"
              /\ tasks[i].task.task_id = <<"task_", ToString(i)>>
              /\ tasks[i].task.priority = i
        /\ NoRuleMatches(loop.code) =>
              /\ Len(tasks) = 1
              /\ tasks[1].task.query = loop.code
              /\ tasks[1].task.chart_type = "none"

C10_Witness ==
    /\ loop.fn = "_fallback_task_breakdown"
    /\ loop.pc = "returned"
    /\ NoRuleMatches(loop.code)
    /\ loop.code # <<>>
    /\ Len(loop.ret.items) = 1
    /\ loop.ret.items[1].task.query = loop.code

-----------------------------------------------------------------------------
(* Claims about the chat sessions                                              *)

\* C11: after any sequence of add_message_to_history calls on a session its
\* conversation history has at most 20 entries, which are the most recently
\* appended messages in the order they were appended (the oldest are dropped
\* first), and an append to a full history returns True.
C11_HistoryBounded ==
    /\ [](\A c \in DOMAIN sessions :
            LET h == sessions[c].context.conversation_history
                log == appended[c]
            IN /\ Len(h) <= 20
               /\ Len(h) = IF Len(log) < 20 THEN Len(log) ELSE 20
               /\ \A i \in 1..Len(h) : h[i].message = log[Len(log) - Len(h) + i])
    /\ [][\A c \in DOMAIN sessions :
            (/\ Len(sessions[c].context.conversation_history) = 20
             /\ op'.name = "add_message_to_history"
             /\ op'.key_arg = c
             /\ now' = now)
            => /\ op'.ok
               /\ c \in DOMAIN sessions'
               /\ Len(sessions'[c].context.conversation_history) = 20
               /\ sessions'[c].context.conversation_history[20].message = op'.ret[1]
               /\ \A i \in 1..19 :
                     sessions'[c].context.conversation_history[i]
                        = sessions[c].context.conversation_history[i + 1]
       ]_vars

C11_Witness ==
    /\ op.name = "add_message_to_history"
    /\ op.ok
    /\ "c1" \in DOMAIN sessions
    /\ Len(appended["c1"]) = 22
    /\ Len(sessions["c1"].context.conversation_history) = 20
    /\ sessions["c1"].context.conversation_history[18].message = "earlier"
    /\ sessions["c1"].context.conversation_history[19].message = "user: how many rows"
    /\ sessions["c1"].context.conversation_history[20].message = "assistant: 42"

\* C12: cleanup_expired_sessions removes exactly the sessions with
\* now - last_activity > session_timeout, returns how many it removed, and leaves
\* every other session present with its context, history, message counter and
\* last_activity unchanged.
C12_SweepExact ==
    [][(op'.name = "cleanup_expired_sessions" /\ now' = now) =>
          LET expired == {c \in DOMAIN sessions : now - sessions[c].last_activity > 3600}
          IN /\ DOMAIN sessions' = DOMAIN sessions \ expired
             /\ op'.ret = <<Cardinality(expired)>>
             /\ \A c \in DOMAIN sessions \ expired : sessions'[c] = sessions[c]
      ]_vars

C12_Witness ==
    /\ op.name = "cleanup_expired_sessions"
    /\ op.ret = <<1>>
    /\ DOMAIN sessions = {"c2"}
    /\ DOMAIN appended = {"c1", "c2"}
    /\ now - sessions["c2"].last_activity = 3600
    /\ sessions["c2"].message_count = 1

-----------------------------------------------------------------------------
(* Claims about what leaves the gateway and about the pool's contents          *)

\* C17: no error text that leaves _call_gemini_api or _call_llm_api contains a
\* pooled credential: whenever one of them raises, on any of its failure paths,
\* the text of the exception contains none of the secrets in the pool.
C17_NoSecretInError ==
    (op.name \in {"_call_gemini_api", "_call_llm_api"} /\ ~op.ok)
        => \A key \in PoolKeys(ai_agent) : ~Contains(op.ret, key)

\* C18: no provider request is issued while the pool is empty, and when an
\* environment (fallback) credential is configured it is in the pool whenever a
\* request is issued: every step that issues requests starts or continues (after
\* the re-insertion of _call_llm_api) with a non-empty pool holding the keys it
\* requests with; get_next_api_key on an empty pool raises the no-credentials
\* error and leaves the rotation index unchanged.
C18_NoRequestOnEmptyPool ==
    /\ [](ai_agent.env_api_key # None => InPool(ai_agent, ai_agent.env_api_key))
    /\ [](op.reqs # <<>> =>
            /\ ai_agent.gemini_api_keys # <<>>
            /\ \A i \in 1..Len(op.reqs) : InPool(ai_agent, op.reqs[i]))
    /\ [][(op'.reqs # <<>> /\ op' # op) =>
            /\ ensure_env_api_key_available(ai_agent).self.gemini_api_keys # <<>>
            /\ ai_agent.env_api_key # None => InPool(ai_agent, ai_agent.env_api_key)
            /\ op'.name \in GeminiCallers => ai_agent.gemini_api_keys # <<>>
            /\ ai_agent'.gemini_api_keys
                  = ensure_env_api_key_available(ai_agent).self.gemini_api_keys
       ]_vars
    /\ [][(ai_agent.gemini_api_keys = <<>> /\ op' # op) =>
            /\ op'.name = "get_next_api_key" =>
                  /\ ~op'.ok
                  /\ op'.ret = NoKeysError
                  /\ ai_agent'.current_api_index = ai_agent.current_api_index
            /\ op'.name \in GeminiCallers =>
                  /\ ~op'.ok
                  /\ op'.reqs = <<>>
                  /\ op'.ret = GeminiErrorPrefix \o NoKeysError
                  /\ ai_agent' = ai_agent
            /\ op'.name \in LlmCallers =>
                  /\ ~op'.ok
                  /\ op'.reqs = <<>>
                  /\ op'.ret = NoKeysError
                  /\ ai_agent' = ai_agent
       ]_vars

C18_Witness ==
    /\ op.name = "_break_down_query_into_tasks"
    /\ Len(op.reqs) = 2
    /\ op.reqs[1] = ai_agent.env_api_key
    /\ op.reqs[2] = ai_agent.env_api_key
    /\ op.ok
    /\ op.demotions = 1
    /\ Len(ai_agent.gemini_api_keys) = 2
    /\ ai_agent.gemini_api_keys[1] = ai_agent.env_api_key
    /\ ai_agent.current_api_index = 1

\* Python: pool == longer[:len(pool)]
IsPrefix(pool, longer) ==
    /\ Len(pool) <= Len(longer)
    /\ \A i \in 1..Len(pool) : longer[i] = pool[i]

\* C19: add_gemini_api_key returns False for a secret that is the environment
\* key or already pooled (and possibly for any other, when the probe fails), and
\* then leaves the pool, the usage records, the rotation index and the tier as
\* they were; when it returns True the secret was neither, it is appended at the
\* end of the pool with a zeroed usage record and nothing else changes; and no
\* step of any pool operation removes or moves a pooled credential.
C19_RegisterOrUnchanged ==
    [][/\ IsPrefix(ai_agent.gemini_api_keys, ai_agent'.gemini_api_keys)
       /\ op'.name = "add_gemini_api_key" =>
            LET key == op'.key_arg IN
            /\ (key = ai_agent.env_api_key \/ InPool(ai_agent, key)) => ~op'.ok
            /\ ~op'.ok => ai_agent' = ai_agent
            /\ op'.ok =>
                 /\ ai_agent'.gemini_api_keys = Append(ai_agent.gemini_api_keys, key)
                 /\ ai_agent'.api_key_usage[key] =
                       [calls_made |-> 0, tokens_used |-> 0, last_used |-> None]
                 /\ \A k \in DOMAIN ai_agent.api_key_usage :
                       ai_agent'.api_key_usage[k] = ai_agent.api_key_usage[k]
                 /\ ai_agent'.current_api_index = ai_agent.current_api_index
                 /\ ai_agent'.current_model_name = ai_agent.current_model_name
      ]_vars

C19_Witness ==
    /\ op.name = "add_gemini_api_key"
    /\ op.ok
    /\ op.key_arg = <<"kB">>
    /\ ai_agent.gemini_api_keys = <<<<"kE">>, <<"kA">>, <<"kB">>>>
    /\ ai_agent.current_api_index = 1
    /\ ai_agent.api_key_usage[<<"kB">>].calls_made = 0

-----------------------------------------------------------------------------
(* Claims about the top-level calls                                             *)

\* the result of a subtask has a non-none chart
HasChart(r) == r.chart_type # ChartNone

\* C13: get_answer_with_task_breakdown and get_answer_with_chat_context always
\* return a response: whatever fails in the breakdown, the generation, the
\* execution and its repair or the synthesis, and whatever a generated script
\* raises, no exception leaves the top-level call.
C13_AlwaysReturnsResponse == answer.pc # "propagated"

\* C14: when a generation, execution or synthesis loop has exhausted its ceiling
\* during the call, the response the top-level call returns has its error
\* field populated, chart_type none, and the call and token counters.
C14_ExhaustionSurfaced ==
    (answer.pc = "returned" /\ answer.exhausted # {}) =>
        /\ answer.response.error # Absent
        /\ answer.response.chart_type = ChartNone
        /\ answer.response.has_counters

\* C15: get_answer_with_task_breakdown for a session whose schema is empty
\* returns the no-data error (error populated, chart_type none, no tasks) in
\* that step, with no inference request, no script executed, and the pool, the
\* tier and the usage counters as they were.
C15_NoSchemaFails ==
    [][(/\ answer.pc = "idle"
        /\ answer'.fn = "get_answer_with_task_breakdown"
        /\ answer'.schema_info = <<>>)
       => /\ answer'.pc = "returned"
          /\ answer'.response.error = <<"No data found for this session">>
          /\ answer'.response.chart_type = ChartNone
          /\ answer'.response.has_tasks
          /\ answer'.response.tasks = <<>>
          /\ answer'.requests = 0
          /\ answer'.executions = 0
          /\ ai_agent' = ai_agent
          /\ genai_api_key' = genai_api_key
          /\ served' = served
          /\ sys_stdout' = sys_stdout
          /\ streams' = streams]_vars

C15_Witness ==
    /\ answer.pc = "returned"
    /\ answer.fn = "get_answer_with_task_breakdown"
    /\ answer.session_id = "db0"
    /\ answer.schema_info = <<>>
    /\ answer.response.error = <<"No data found for this session">>
    /\ ai_agent.gemini_api_keys # <<>>

\* C16: get_answer_with_chat_context with a chat id that has no session returns
\* the invalid-chat-session error in that step, creates no session, changes no
\* session, and issues no inference request.
C16_UnknownChatFails ==
    [][(/\ answer.pc = "idle"
        /\ answer'.fn = "get_answer_with_chat_context"
        /\ answer'.chat_id \notin DOMAIN sessions)
       => /\ answer'.pc = "returned"
          /\ answer'.response.error = <<"Invalid chat session">>
          /\ answer'.response.chart_type = ChartNone
          /\ DOMAIN sessions' = DOMAIN sessions
          /\ \A c \in DOMAIN sessions : sessions'[c] = sessions[c]
          /\ appended' = appended
          /\ answer'.requests = 0
          /\ ai_agent' = ai_agent
          /\ genai_api_key' = genai_api_key
          /\ served' = served]_vars

C16_Witness ==
    /\ answer.pc = "returned"
    /\ answer.fn = "get_answer_with_chat_context"
    /\ answer.chat_id = "c0"
    /\ "c0" \notin DOMAIN sessions
    /\ answer.response.error = <<"Invalid chat session">>

-----------------------------------------------------------------------------
(* Claims about the chart of a synthesis result *)

\* the chart kind the synthesis text suggests
Suggests(synthesis_result, kind) ==
    Contains(Lower(synthesis_result), <<Bar, WS, "Chart:", WS>> \o kind \o <<WS, Bar>>)

\* the lexemes i of a text at which a pair "name: number" starts
NamedNumberAt(toks, i) ==
    /\ toks[i] \in WordLexemes
    /\ i + 1 <= Len(toks)
    /\ toks[i + 1] = ":"
    /\ \E j \in (i + 2)..Len(toks) :
          /\ toks[j] \in NumberLexemes
          /\ \A k \in (i + 2)..(j - 1) : IsSpace(toks[k])

RECURSIVE NamedNumbers(_, _)
\* the pairs "name: number" of a text from lexeme i on, in their order, each as
\* the name and the decimal numeral of the number
NamedNumbers(toks, i) ==
    IF i > Len(toks) THEN <<>>
    ELSE IF NamedNumberAt(toks, i)
    THEN LET j == CHOOSE j \in (i + 2)..Len(toks) :
                      /\ toks[j] \in NumberLexemes
                      /\ \A k \in (i + 2)..(j - 1) : IsSpace(toks[k])
         IN <<<<toks[i], ToString(IntOf(toks[j]))>>>> \o NamedNumbers(toks, j + 1)
    ELSE NamedNumbers(toks, i + 1)

IsChartSeries(chart_data) ==
    /\ chart_data \notin {None, Absent, <<>>}
    /\ chart_data[1] = "{chart}"

\* the labels and the values of a chart dict, paired
ChartSeries(chart_data) ==
    LET l == CHOOSE i \in 1..Len(chart_data) : chart_data[i] = "label"
        d == CHOOSE i \in 1..Len(chart_data) : chart_data[i] = "data"
        labels == Slice(chart_data, 4, l - 1)
        values == Slice(chart_data, d + 1, Len(chart_data))
    IN IF Len(labels) = Len(values)
       THEN [i \in 1..Len(labels) |-> <<labels[i], values[i]>>]
       ELSE <<>>

\* C21: for each of the kinds bar, pie, line and scatter, when the synthesis
\* text suggests the kind and the raw output contains pairs "name: number", the
\* result has that chart kind, and its labels and values are those of the pairs
\* in their order of appearance.
C21_ChartExtraction ==
    (answer.pc = "returned" /\ answer.fn = "get_answer") =>
        \A kind \in RecognisedCharts :
            LET pairs == NamedNumbers(Lex(answer.raw_result), 1) IN
            (Suggests(loop.ret, kind) /\ pairs # <<>>) =>
                /\ answer.response.chart_type = kind
                /\ IsChartSeries(answer.response.chart_data)
                /\ ChartSeries(answer.response.chart_data) = pairs

\* C22: every result of the parsing has a chart_type among bar, pie, line,
\* scatter and none, and a chart_type other than none comes with chart data
\* that is a series of labels and values.
C22_ChartKindClosed ==
    (answer.pc = "returned" /\ answer.fn = "get_answer") =>
        /\ answer.response.chart_type \in RecognisedCharts \cup {ChartNone}
        /\ answer.response.chart_type # ChartNone =>
              IsChartSeries(answer.response.chart_data)

-----------------------------------------------------------------------------
(* Claims about the tasks and the turns of a call *)

RECURSIVE HeadedAnswers(_, _, _)
\* the answers of the results from the i-th on, each under the number and the
\* description of its task
HeadedAnswers(tasks, results, i) ==
    IF i > Len(tasks) THEN <<>>
    ELSE <<"**", ToString(i), ". ">> \o tasks[i].task.description \o <<"**", NL>>
         \o results[i].answer \o <<NL, NL>> \o HeadedAnswers(tasks, results, i + 1)

\* C23: within one call the tasks are processed one after another in the order
\* of the list: the generation for a task starts only when the results of all
\* tasks before it are recorded, each task gets exactly one result, in the same
\* order, a failed task getting an error result without stopping the later
\* ones, and the merged answer lists the answers of the tasks under headings
\* numbered 1..N in that order.
C23_TasksInOrder ==
    (answer.mode = "tasks" /\ answer.tasks # <<>>) =>
        LET n == Len(answer.tasks)
            results == answer.results
        IN /\ Len(results) <= n
           /\ \A i \in 1..Len(results) : results[i].task_id = answer.tasks[i].task.task_id
           /\ Len(answer.started) <= n
           /\ \A i \in 1..Len(answer.started) :
                 answer.started[i] = answer.tasks[i].task.task_id
           /\ answer.pc \in {"generate", "execute", "synthesize"} =>
                 Len(answer.started) = Len(results) + 1
           /\ answer.pc = "returned" =>
                 /\ Len(results) = n
                 /\ answer.response.has_tasks
                 /\ answer.response.tasks = results
                 /\ answer.response.answer =
                       <<"I've analyzed your request and completed", ToString(n),
                         "tasks:", NL, NL>> \o HeadedAnswers(answer.tasks, results, 1)

\* the sessions other than chat_id are in the map after the step as before it
OthersUnchanged(chat_id) ==
    \A d \in DOMAIN sessions \ {chat_id} : d \in DOMAIN sessions' /\ sessions'[d] = sessions[d]

\* C24: chat sessions are isolated: create returns an id that is not in the map
\* (also for a data session that already has a chat session) and leaves the
\* sessions of the map alone, and a context update, an append to the history,
\* a lookup or a delete for one chat id leaves the context, the history, the
\* message counter and the last activity of every other session unchanged.
C24_SessionsIsolated ==
    [][/\ op'.name = "create_chat_session" =>
            /\ op'.key_arg \notin DOMAIN sessions
            /\ op'.key_arg \in DOMAIN sessions'
            /\ OthersUnchanged(op'.key_arg)
       /\ op'.name \in {"get_chat_session", "update_chat_context", "add_message_to_history",
                        "delete_chat_session"} =>
            OthersUnchanged(op'.key_arg)]_vars

\* two chat sessions of one data session, the second untouched since its
\* creation while the first was updated after it
C24_Witness ==
    /\ op.name \in {"update_chat_context", "add_message_to_history", "get_chat_session"}
    /\ op.key_arg = "c1"
    /\ DOMAIN sessions = {"c1", "c2"}
    /\ sessions["c1"].database_session_id = sessions["c2"].database_session_id
    /\ sessions["c2"].last_activity = sessions["c2"].created_at
    /\ sessions["c2"].message_count = 0
    /\ sessions["c2"].context = EmptyContext
    /\ sessions["c1"].last_activity > sessions["c2"].last_activity
    /\ sessions["c1"].message_count = 1
    /\ sessions["c1"].context.conversation_history # <<>>

\* C28: eviction is lazy. A session leaves the map only in a delete or a sweep,
\* never in a lookup, a context update, an append or a listing. A lookup of a
\* session in the map, also one idle for longer than the timeout and not swept
\* yet, returns it and sets its last activity to the current time, so that a
\* sweep following it keeps the session. A lookup of an id that is not in the
\* map (never created, deleted or swept) finds nothing, and the delete of such an
\* id returns false and changes nothing.
C28_LazyEviction ==
    [][/\ (\E c \in DOMAIN sessions : c \notin DOMAIN sessions') =>
            op'.name \in {"delete_chat_session", "cleanup_expired_sessions"}
       /\ op'.name \in {"delete_chat_session", "cleanup_expired_sessions"} =>
            \A c \in DOMAIN sessions' : c \in DOMAIN sessions /\ sessions'[c] = sessions[c]
       /\ (op'.name = "delete_chat_session" /\ op'.key_arg \in DOMAIN sessions) =>
            op'.ok /\ DOMAIN sessions' = DOMAIN sessions \ {op'.key_arg}
       /\ (op'.name = "delete_chat_session" /\ op'.key_arg \notin DOMAIN sessions) =>
            ~op'.ok /\ sessions' = sessions
       /\ (op'.name = "get_chat_session" /\ op'.key_arg \in DOMAIN sessions) =>
            /\ op'.ok
            /\ op'.key_arg \in DOMAIN sessions'
            /\ sessions'[op'.key_arg] = [sessions[op'.key_arg] EXCEPT !.last_activity = now]
            /\ op'.key_arg \in DOMAIN cleanup_expired_sessions(sessions', now).sessions
       /\ (op'.name = "get_chat_session" /\ op'.key_arg \notin DOMAIN sessions) =>
            ~op'.ok /\ sessions' = sessions]_vars

\* a session idle for longer than the timeout was looked up before any sweep and
\* is in the map, with the current time as its last activity
C28_Witness ==
    /\ op.name = "get_chat_session"
    /\ op.ok
    /\ op.ret = <<"expired">>
    /\ op.key_arg \in DOMAIN sessions
    /\ sessions[op.key_arg].last_activity = now
    /\ sessions[op.key_arg].created_at = 0

\* C25: a follow-up question builds on the conversation: when the history of the
\* chat session is not empty, the question the call hands to the pipeline holds
\* the content of each of the last (up to three) messages of the history; with
\* an empty history it is the question unchanged.
C25_FollowUpHasContext ==
    (answer.fn = "get_answer_with_chat_context" /\ answer.pc \notin {"idle", "returned"}) =>
        LET conversation_history == sessions[answer.chat_id].context.conversation_history
            recent_messages == SliceLast(conversation_history, 3)
        IN IF conversation_history = <<>>
           THEN answer.query = answer.question
           ELSE \A i \in 1..Len(recent_messages) :
                   Contains(answer.query, SliceFirst(recent_messages[i].message.content, 100))

\* the call of answer for the chat session chat_id returns in this step
ChatTurnReturns(chat_id) ==
    /\ answer.pc # "returned"
    /\ answer'.pc = "returned"
    /\ answer'.fn = "get_answer_with_chat_context"
    /\ answer'.chat_id = chat_id
    /\ chat_id \in DOMAIN sessions

\* the step records the turn in the session chat_id
TurnRecorded(chat_id) ==
    LET old == sessions[chat_id].context
        new == sessions'[chat_id].context
        user == [timestamp |-> now, message |-> UserMessage(answer'.question)]
        assistant == [timestamp |-> now, message |-> AssistantMessage(answer'.response)]
    IN /\ new.last_query = answer'.question
       /\ new.last_result = answer'.response
       /\ new.conversation_history =
             SliceLast(old.conversation_history \o <<user, assistant>>, history_limit)

\* the step leaves the history and the last query of the session chat_id alone
NothingRecorded(chat_id) ==
    /\ sessions'[chat_id].context.conversation_history =
          sessions[chat_id].context.conversation_history
    /\ sessions'[chat_id].context.last_query = sessions[chat_id].context.last_query

\* C29: a call of get_answer_with_chat_context that returns for a known chat id
\* whose schema is cached or found records the turn: the last query of the
\* session is the caller's question, its last result the response returned, and
\* the history gains the user message and then the assistant message, trimmed
\* to the last 20; a call that fails because there is no schema (or because the
\* schema lookup raised) leaves the history as it was.
C29_TurnRecorded ==
    [][\A chat_id \in ChatIds :
          ChatTurnReturns(chat_id) =>
              IF Truthy(sessions[chat_id].context.schema_info)
              THEN TurnRecorded(chat_id)
              ELSE IF sessions[chat_id].database_session_id \notin DbSessions
              THEN /\ NothingRecorded(chat_id)
                   /\ answer'.response.error \in {<<"No data found for this chat session">>,
                                                  <<"Chat context processing failed">>}
              ELSE \/ TurnRecorded(chat_id)
                   \/ /\ NothingRecorded(chat_id)
                      /\ answer'.response.error = <<"Chat context processing failed">>]_vars

\* a turn of a session whose history was full has returned an answer: the history
\* has lost the two messages of the first turn and ends with those of this one
C29_Witness ==
    /\ answer.pc = "returned"
    /\ answer.chat_id = "c1"
    /\ answer.response.error = Absent
    /\ LET context == sessions["c1"].context
           conversation_history == context.conversation_history
       IN /\ context.last_result = answer.response
          /\ context.last_query = answer.question
          /\ Len(conversation_history) = history_limit
          /\ conversation_history[1].message.content = EarlierQuestion(2)
          /\ conversation_history[history_limit - 1].message = UserMessage(answer.question)
          /\ conversation_history[history_limit].message.type = "assistant"
          /\ conversation_history[history_limit].message.content = answer.response.answer

\* C30: the message_count of the response of get_answer_with_chat_context is the
\* number of turns the chat session has completed, k after the k-th completed
\* turn (each completed turn appends two messages to the history).
C30_MessageCountIsTurns ==
    (/\ answer.pc = "returned"
     /\ answer.fn = "get_answer_with_chat_context"
     /\ answer.chat_id \in DOMAIN sessions
     /\ Truthy(sessions[answer.chat_id].context.schema_info)) =>
        answer.response.message_count = Len(appended[answer.chat_id]) \div 2

-----------------------------------------------------------------------------
(* Claims about a failed request and about concurrent calls *)

\* the call of the step made a provider request that failed with an error that is
\* not classified as a limit error
FailedWithoutLimitError ==
    /\ op'.name = "_call_gemini_api"
    /\ Len(op'.reqs) >= 1
    /\ ~op'.reqs[1].ok
    /\ ~is_model_limit_error(Sanitize(op'.reqs[1].text, op'.reqs[1].key))

\* the call of the step raised after one request and left the tier and the usage
\* counters as they were
PropagatedAfterOneRequest ==
    /\ ~op'.ok
    /\ Len(op'.reqs) = 1
    /\ op'.demotions = 0
    /\ op'.ret = GeminiErrorPrefix \o Sanitize(op'.reqs[1].text, op'.reqs[1].key)
    /\ ai_agent'.current_model_name = ai_agent.current_model_name
    /\ ai_agent'.api_call_count = ai_agent.api_call_count
    /\ ai_agent'.total_tokens_used = ai_agent.total_tokens_used
    /\ ai_agent'.api_key_usage = ai_agent.api_key_usage

\* C27 as stated: a gateway call whose provider request fails with an error that
\* is not limit-classified propagates the error after exactly one provider
\* request, with no retry, and leaves the model tier, the rotation index and
\* all usage counters unchanged.
C27_FailureLeavesAllUnchanged ==
    [][FailedWithoutLimitError =>
          /\ PropagatedAfterOneRequest
          /\ ai_agent'.current_api_index = ai_agent.current_api_index]_vars

\* C27: a gateway call whose provider request fails with an error that is not
\* limit-classified propagates the error after exactly one provider request,
\* with no retry, and leaves the model tier and all usage counters unchanged;
\* the rotation index is unchanged when the caller gave the credential, and has
\* advanced by one place, wrapping, when the gateway selected it.
C27_FailurePropagatesOnce ==
    [][FailedWithoutLimitError =>
          /\ PropagatedAfterOneRequest
          /\ ai_agent'.current_api_index =
                IF op'.key_arg = None
                THEN (ai_agent.current_api_index + 1) % Len(ai_agent.gemini_api_keys)
                ELSE ai_agent.current_api_index]_vars

\* a call without a credential argument failed with the error that is not a
\* limit error, after one request, in a pool of two or more credentials
C27_Witness ==
    /\ op.name = "_call_gemini_api"
    /\ op.key_arg = None
    /\ ~op.ok
    /\ Len(op.reqs) = 1
    /\ ~is_model_limit_error(Sanitize(op.reqs[1].text, op.reqs[1].key))
    /\ Len(ai_agent.gemini_api_keys) >= 2
    /\ ai_agent.current_api_index = 1

\* the get_next_api_key calls and the successful inference calls completed
CompletedNexts == SumOver([w \in QueryWorkers |-> run[w].nexts], QueryWorkers)
CompletedCalls == SumOver([w \in QueryWorkers |-> run[w].calls], QueryWorkers)

-----------------------------------------------------------------------------
(* Claims about the resets, the bounds of a call and the counters *)

\* C32: the resets touch only their own state: reset_credit_tracking sets the
\* global call and token counters to 0 and the usage record of every credential
\* to zero calls, zero tokens and no last use, and leaves the pool, the rotation
\* index and the tier as they were; reset_to_primary_model sets the tier to
\* primary and leaves the pool, the rotation index and all counters as they were.
C32_ResetsOwnState ==
    [][/\ op'.name = "reset_credit_tracking" =>
            /\ ai_agent'.api_call_count = 0
            /\ ai_agent'.total_tokens_used = 0
            /\ DOMAIN ai_agent'.api_key_usage = DOMAIN ai_agent.api_key_usage
            /\ \A k \in DOMAIN ai_agent'.api_key_usage :
                  ai_agent'.api_key_usage[k] =
                      [calls_made |-> 0, tokens_used |-> 0, last_used |-> None]
            /\ ai_agent'.gemini_api_keys = ai_agent.gemini_api_keys
            /\ ai_agent'.env_api_key = ai_agent.env_api_key
            /\ ai_agent'.current_api_index = ai_agent.current_api_index
            /\ ai_agent'.current_model_name = ai_agent.current_model_name
       /\ op'.name = "reset_to_primary_model" =>
            ai_agent' = [ai_agent EXCEPT !.current_model_name = primary_model_name]]_vars

\* the counters of a pool of two or more were reset after a call
\* without a credential had moved the rotation and the tier was demoted
C32_Witness ==
    /\ op.name = "reset_credit_tracking"
    /\ Len(ai_agent.gemini_api_keys) >= 2
    /\ ai_agent.current_api_index = 1
    /\ ai_agent.current_model_name # primary_model_name
    /\ ai_agent.api_call_count = 0
    /\ genai_api_key = ai_agent.gemini_api_keys[1]

\* C34: one call of _call_gemini_api issues at most two provider requests and
\* demotes the tier at most once; at the tertiary tier a limit-classified error
\* of the request is propagated after that one request, without a retry, and
\* the tier stays tertiary.
C34_CallBounded ==
    [][op'.name = "_call_gemini_api" =>
          /\ Len(op'.reqs) <= 2
          /\ op'.demotions <= 1
          /\ TierRank(ai_agent'.current_model_name) =
                TierRank(ai_agent.current_model_name) + op'.demotions
          /\ Len(op'.reqs) = 2 => op'.demotions = 1
          /\ ( /\ ai_agent.current_model_name = tertiary_model_name
               /\ Len(op'.reqs) >= 1
               /\ ~op'.reqs[1].ok
               /\ is_model_limit_error(Sanitize(op'.reqs[1].text, op'.reqs[1].key)) ) =>
                /\ ~op'.ok
                /\ Len(op'.reqs) = 1
                /\ op'.demotions = 0
                /\ op'.ret = NoFallbackPrefix \o Sanitize(op'.reqs[1].text, op'.reqs[1].key)
                /\ ai_agent'.current_model_name = tertiary_model_name]_vars

\* a call at the tertiary tier has raised after one request that failed with a
\* limit error
C34_Witness ==
    /\ op.name = "_call_gemini_api"
    /\ ~op.ok
    /\ Len(op.reqs) = 1
    /\ op.reqs[1].model = tertiary_model_name
    /\ is_model_limit_error(op.reqs[1].text)
    /\ op.demotions = 0
    /\ ai_agent.current_model_name = tertiary_model_name

\* the counters of the agent: the two global ones and those of each credential
UsageCounters(self) ==
    [api_call_count |-> self.api_call_count,
     total_tokens_used |-> self.total_tokens_used,
     usage |-> [k \in DOMAIN self.api_key_usage |->
                   <<self.api_key_usage[k].calls_made, self.api_key_usage[k].tokens_used>>]]

\* the global counters are the sums of those of the credentials
CountersAgree(self) ==
    /\ self.api_call_count =
          SumOver([k \in DOMAIN self.api_key_usage |-> self.api_key_usage[k].calls_made],
                  DOMAIN self.api_key_usage)
    /\ self.total_tokens_used =
          SumOver([k \in DOMAIN self.api_key_usage |-> self.api_key_usage[k].tokens_used],
                  DOMAIN self.api_key_usage)

\* C38: with one worker, in every reachable state the global call counter is
\* the sum of the calls_made of the credentials and the global token counter the
\* sum of their tokens_used; the counters change only in a call whose last
\* provider request was answered (by one call, for the credential of the
\* request) or in a reset: a call whose requests failed counts nothing.
C38_CountersConsistent ==
    [][/\ CountersAgree(ai_agent)
       /\ CountersAgree(ai_agent')
       /\ UsageCounters(ai_agent') # UsageCounters(ai_agent) =>
             \/ op'.name = "reset_credit_tracking"
             \/ /\ op'.name = "_call_gemini_api"
                /\ op'.ok
                /\ op'.reqs[Len(op'.reqs)].ok
                /\ ai_agent'.api_call_count = ai_agent.api_call_count + 1
                /\ ai_agent'.api_key_usage[op'.reqs[1].key].calls_made =
                      ai_agent.api_key_usage[op'.reqs[1].key].calls_made + 1
       /\ (op'.name = "_call_gemini_api" /\ ~op'.ok) =>
             UsageCounters(ai_agent') = UsageCounters(ai_agent)]_vars

\* two credentials have answered one request each, one of them with a token
\* count, the second after a request that failed and was retried
C38_Witness ==
    /\ op.name = "_call_gemini_api"
    /\ op.ok
    /\ Len(op.reqs) = 2
    /\ ai_agent.api_call_count = 2
    /\ ai_agent.total_tokens_used = 2
    /\ \E k1, k2 \in DOMAIN ai_agent.api_key_usage :
          /\ k1 # k2
          /\ ai_agent.api_key_usage[k1].calls_made = 1
          /\ ai_agent.api_key_usage[k2].calls_made = 1
          /\ ai_agent.api_key_usage[k1].tokens_used = 2
          /\ ai_agent.api_key_usage[k2].tokens_used = 0

\* C39: in every state of the pool reached by registrations, the fallback
\* re-insertion, selections and the two resets, no secret is pooled twice, every
\* pooled secret has a usage record, and the rotation index is a position of the
\* pool when the pool is not empty.
C39_PoolWellFormed ==
    LET keys == ai_agent.gemini_api_keys IN
    /\ \A i, j \in 1..Len(keys) : i # j => keys[i] # keys[j]
    /\ \A i \in 1..Len(keys) : keys[i] \in DOMAIN ai_agent.api_key_usage
    /\ Len(keys) > 0 => ai_agent.current_api_index \in 0..(Len(keys) - 1)

\* the fallback re-insertion has run on a pool of three secrets whose index is
\* on the last one
C39_Witness ==
    /\ op.name = "ensure_env_api_key_available"
    /\ op.ok
    /\ Len(ai_agent.gemini_api_keys) = 3
    /\ ai_agent.current_api_index = 2
    /\ ai_agent.env_api_key = ai_agent.gemini_api_keys[1]

RECURSIVE KeysTried(_)
\* the credentials of a sequence of provider requests, in the order of their
\* first request
KeysTried(reqs) ==
    IF reqs = <<>> THEN <<>>
    ELSE LET before == KeysTried(SubSeq(reqs, 1, Len(reqs) - 1))
             key == reqs[Len(reqs)].key
         IN IF \E i \in 1..Len(before) : before[i] = key THEN before ELSE Append(before, key)

\* C35: _call_llm_api does not rotate.  Its provider requests go to the pooled
\* credentials in pool order from the first one; when it returns, the last
\* request is the only answered one and no later credential was called; the
\* rotation index is as before; and it raises only with an empty pool or after
\* every pooled credential was tried and every request failed.
C35_FailoverInPoolOrder ==
    [][op'.name = "_call_llm_api" =>
          LET pool == ai_agent'.gemini_api_keys
              reqs == op'.reqs
              tried == KeysTried(reqs)
          IN
          /\ ai_agent'.current_api_index = ai_agent.current_api_index
          /\ pool = ai_agent.gemini_api_keys
          /\ IsPrefix(tried, pool)
          /\ op'.ok =>
                /\ reqs # <<>>
                /\ reqs[Len(reqs)].ok
                /\ \A i \in 1..(Len(reqs) - 1) : ~reqs[i].ok
                /\ op'.ret = ExtractCode(reqs[Len(reqs)].text)
          /\ ~op'.ok =>
                /\ tried = pool
                /\ \A i \in 1..Len(reqs) : ~reqs[i].ok
                /\ IF pool = <<>> THEN op'.ret = NoKeysError
                   ELSE IsPrefix(AllFailedPrefix, op'.ret)]_vars

\* with the index on the second of three credentials, the first credential
\* failed and the second answered: the third was not called
C35_Witness ==
    /\ op.name = "_call_llm_api"
    /\ op.ok
    /\ Len(ai_agent.gemini_api_keys) = 3
    /\ ai_agent.current_api_index = 1
    /\ KeysTried(op.reqs) = SubSeq(ai_agent.gemini_api_keys, 1, 2)

-----------------------------------------------------------------------------
(* Claims about the repair loop                                                 *)

\* C36: _execute_code_with_retry never returns a text that starts with the error
\* marker.  An execution whose output starts with the marker, because the
\* script failed or because it printed the marker itself, is followed by a
\* patch request and another execution while the attempt is below the ceiling,
\* and by the execution-failed error at the ceiling.
C36_MarkerNeverReturned ==
    loop.fn = "_execute_code_with_retry" =>
        /\ loop.pc = "returned" =>
              /\ ~StartsWith(loop.ret, ErrorMarker)
              /\ loop.ret = loop.execs[Len(loop.execs)].value
        /\ \A i \in 1..Len(loop.execs) :
              CarriesMarker(loop.execs[i]) =>
                 IF i = max_retry_attempts
                 THEN /\ loop.pc = "failed"
                      /\ loop.ret = ExecutionFailedPrefix \o loop.execs[i].value
                 ELSE /\ Len(loop.execs) = i =>
                            IF Len(loop.patches) = i - 1 THEN loop.pc = "fix"
                            ELSE loop.pc = "execute" /\ Len(loop.patches) = i
                      /\ Len(loop.execs) > i => Len(loop.patches) >= i
                      /\ Len(loop.patches) >= i => loop.patches[i].code = loop.execs[i].code

\* the script that prints the marker was executed three times, with two patch
\* requests in between, and the call raised the execution-failed error
C36_Witness ==
    /\ loop.fn = "_execute_code_with_retry"
    /\ loop.pc = "failed"
    /\ Len(loop.execs) = 3
    /\ Len(loop.patches) = 2
    /\ \A i \in 1..3 : /\ loop.execs[i].code = <<"print('Error executing code: x')">>
                       /\ loop.execs[i].outcome = "return"

\* C37: a patch request is always followed by the next attempt: the attempt
\* counter advances by one and the script returned by _fix_code_based_on_error
\* is executed, which is the failing script itself when the request failed or
\* gave an identical script; the failure of the request is not raised.  Every
\* execution is the attempt of its number, and there are at most 3.
C37_PatchFailureRetries ==
    [][/\ loop.pc = "fix" =>
             /\ op'.name = "_fix_code_based_on_error"
             /\ loop'.pc = "execute"
             /\ loop'.attempt = loop.attempt + 1
             /\ loop'.code = op'.ret
             /\ ~op'.ok => loop'.code = loop.code
             /\ loop'.execs = loop.execs
       /\ (loop.pc = "execute" /\ loop.fn = "_execute_code_with_retry"
             /\ loop'.execs # loop.execs) =>
             /\ Len(loop'.execs) = loop.attempt
             /\ loop'.execs[loop.attempt].code = loop.code
       /\ loop'.fn = "_execute_code_with_retry" => Len(loop'.execs) <= max_retry_attempts
      ]_vars

\* the first patch request gave the failing script back, the second failed, and
\* the same script was executed three times
C37_Witness ==
    /\ loop.fn = "_execute_code_with_retry"
    /\ loop.pc = "failed"
    /\ op.name = "_fix_code_based_on_error"
    /\ ~op.ok
    /\ Len(loop.execs) = 3
    /\ loop.execs[1].code = <<"1/0">>
    /\ loop.execs[2].code = <<"1/0">>
    /\ loop.execs[3].code = <<"1/0">>

-----------------------------------------------------------------------------
(* SpecExecutors: the requests of two clients whose handlers reach              *)
(* execute_code_safely.  run is the frame of the call of each request; a        *)
(* request that has arrived waits with its script until the event loop runs its *)
(* handler                                                                      *)

ExecutorScripts ==
    { <<>>,
      <<"print('RESULT:42')">>,
      <<"print('Error executing code: x')", "print('RESULT:42')">>,
      <<"print('RESULT:42')", "1/0">>,
      <<"import sys; sys.stdout = sys.stderr", "print('RESULT:42')">>,
      <<"print('RESULT:42')", "raise SystemExit('boom')">>,
      <<SyntaxErrorStmt>> }

\* a request arrives: its coroutine is scheduled, the script it will execute is
\* the one generated for its question
ExecutorArrives(w) ==
    /\ run[w].pc = "idle"
    /\ \E code \in ExecutorScripts :
          run' = [run EXCEPT ![w] = [IdleFrame EXCEPT !.pc = "pending", !.code = code]]
    /\ UNCHANGED <<ai_agent, genai_api_key, op, served, sys_stdout, streams, loop, sessions,
                   now, appended, answer>>

\* lines 611-613 in the handler of w
ExecutorCall(w) ==
    /\ run[w].pc = "pending"
    /\ EventLoopRuns(w)
    /\ LET r == run_begin(run[w].code, IO) IN
          /\ run' = [run EXCEPT ![w] = r.fr]
          /\ sys_stdout' = r.io.stdout
          /\ streams' = r.io.streams
    /\ UNCHANGED <<ai_agent, genai_api_key, op, served, loop, sessions, now, appended, answer>>

\* lines 615-629 in the handler of w, one statement at a time
ExecutorStep(w) == EventLoopRuns(w) /\ RunStep(w)

\* the handler of w has the result and finishes
ExecutorReturn(w) == EventLoopRuns(w) /\ RunReturn(w)

InitExecutors ==
    /\ ai_agent = AgentInit(<<>>)
    /\ genai_api_key = None
    /\ op = OpRec("init", None, TRUE, <<>>, <<>>, 0)
    /\ served = <<>>
    /\ sys_stdout = Console
    /\ streams = <<>>
    /\ run = [w \in QueryWorkers |-> IdleFrame]
    /\ loop = Idle
    /\ sessions = <<>>
    /\ now = 0
    /\ appended = <<>>
    /\ answer = NoAnswer

NextExecutors ==
    \E w \in QueryWorkers :
        \/ ExecutorArrives(w)
        \/ ExecutorCall(w)
        \/ ExecutorStep(w)
        \/ ExecutorReturn(w)

SpecExecutors == InitExecutors /\ [][NextExecutors]_vars

\* what a call with the script code gives when it is the only one
AloneResult(code) == execute_code_safely(code, [stdout |-> Console, streams |-> <<>>])

-----------------------------------------------------------------------------
(* Claims about the termination of a top-level call                             *)

\* the inference calls and executor invocations of the call so far are within
\* the ceilings of n units of work
WithinCeilings(a, n) ==
    /\ a.attempts.decompose <= 1
    /\ a.attempts.generate <= max_code_generation_attempts * n
    /\ a.executions <= max_retry_attempts * n
    /\ a.attempts.patch <= (max_retry_attempts - 1) * n
    /\ a.attempts.synthesize <= max_synthesis_attempts * n

\* the synthesis of the task in progress: a second attempt follows an empty
\* output or a failed call only, and the loop has hit its ceiling only after
\* two attempts
SynthesisRetries ==
    /\ (answer.pc = "synthesize" /\ loop.fn = "_synthesize_result_with_retry") =>
          /\ Len(loop.calls) = loop.attempt - 1
          /\ loop.attempt <= max_synthesis_attempts
          /\ \A i \in 1..Len(loop.calls) :
                loop.calls[i].raised \/ Strip(loop.calls[i].ret) = <<>>
    /\ "synthesis" \in answer.exhausted => answer.attempts.synthesize >= max_synthesis_attempts

AnswerFinished == answer.pc \in {"returned", "propagated"}

\* the inference calls and executor invocations the call has made
CallSteps(a) ==
    a.attempts.decompose + a.attempts.generate + a.executions + a.attempts.patch
       + a.attempts.synthesize

\* the call waits for a provider request or a script execution: when that
\* returns, the step after it is taken
StepPending ==
    \/ answer.pc = "decompose"
    \/ answer.pc = "generate" /\ loop.pc = "generate"
    \/ answer.pc = "execute" /\ loop.pc \in {"execute", "fix"}
    \/ answer.pc = "synthesize" /\ loop.pc = "synthesize"

\* every step of a call in progress is one more inference call or executor
\* invocation, and leaves the call finished or waiting for the next one
CallAdvances ==
    /\ answer.pc # "idle" => CallSteps(answer') = CallSteps(answer) + 1
    /\ AnswerFinished' \/ StepPending'

=============================================================================
